---- MODULE Spec2Model ----
(***************************************************************************)
(* The hiring / employment state machine of the driver-management service  *)
(* (job-request controller, employment controller, JobRequest and          *)
(* Employment models) together with the Identity Store record of each      *)
(* user that the controllers read and update over HTTP.                    *)
(*                                                                         *)
(* Every request handler is an async function: it runs synchronously up    *)
(* to an await, and other handlers may run while it is suspended.  Each    *)
(* action below is one such synchronous stretch ending in the database or  *)
(* HTTP call the handler awaits.  A handler keeps its own copy of the      *)
(* document it loaded; save() writes back only the paths the handler       *)
(* changed ($set) and the array elements it pushed ($push).                *)
(*                                                                         *)
(* Spec follows the service when requests arrive one at a time, with the   *)
(* clock passing expiry dates and employments being ended.  SpecRace       *)
(* follows the job-request handlers when a request may arrive while        *)
(* another handler is suspended.  SpecTrip follows hiring and release      *)
(* together with createTrip of the trip service, which calls back into     *)
(* the employment controller and the Identity Store.  SpecAssign,          *)
(* SpecRating and SpecAvailable follow the assignment-status endpoint,     *)
(* createRating and getAvailableDrivers.  SpecNames follows hiring for     *)
(* every name a company may carry.  SpecFleet follows the trip service     *)
(* (createTrip, updateTrip, deleteTrip, startTrip, endTrip) for a hired    *)
(* driver, and SpecFleetLive does so while every propagation call is       *)
(* answered and every handler in flight runs on to its answer.             *)
(***************************************************************************)
EXTENDS Integers, Sequences, FiniteSets, TLC

\* ---------------------------------------------------------------- bounds
MaxRequests == 2
MaxEmployments == 2
MaxHandlers == 2
MaxHistory == 3
MaxOverlaps == 1
MaxTrips == 2
MaxTime == 2
MaxRatings == 3

\* ------------------------------------------------------------- constants
Drivers == {"d1", "d2"}
Companies == {"c1", "c2"}
UserIds == Drivers \cup Companies

Absent == "<absent>"
Unemployed == "Unemployed"

ModifiableStatuses == {"PENDING", "VIEWED"}
TerminalStatuses == {"REJECTED", "WITHDRAWN", "EXPIRED", "HIRED", "CANCELLED"}
RequestStatuses == {"PENDING", "VIEWED", "ACCEPTED", "REJECTED", "WITHDRAWN", "EXPIRED", "HIRED", "CANCELLED"}
RejectionReasons == {"SALARY_LOW", "LOCATION", "TIMING", "BETTER_OFFER", "PERSONAL", "QUALIFICATIONS", "EXPERIENCE", "OTHER"}

\* The vehicles, the dates and the drivers that trip bodies name, and the
\* fleet manager who plans trips.
Vehicles == {"v1", "v2"}
TripTimes == 1..MaxTime
TripDrivers == {"d1", Absent}
TripManagers == {"c1"}

\* The drivers that rating bodies name and the overallRating values they give.
RatedDrivers == {"d1"}
RatingValues == {3, 4, 5}

\* The drivers that companies address offers to (every driver may call).
OfferedDrivers == {"d1"}

\* The offer (jobDetails and offeredSalary of the body) each company sends.
OfferOf(companyId) ==
    IF companyId = "c1"
    THEN [ jobDetails |-> [serviceType |-> "Commercial", vehicleType |-> "Truck",
                           contractDuration |-> 6, contractUnit |-> "Month(s)"],
           offeredSalary |-> [amount |-> 20000, currency |-> "INR", frequency |-> "PER_MONTH"] ]
    ELSE [ jobDetails |-> [serviceType |-> "Passenger", vehicleType |-> "Bus",
                           contractDuration |-> 1, contractUnit |-> "Year(s)"],
           offeredSalary |-> [amount |-> 500, currency |-> "INR", frequency |-> "PER_DAY"] ]

VARIABLES
    lapsed,       \* the requests whose expiresAt the clock (new Date()) has passed
    users,        \* Identity Store: user id -> [role, companyName]
    jobRequests,  \* job_requests collection: sequence of documents, _id = index
    employments,  \* employments collection: sequence of documents, _id = index
    handlers,     \* request handlers suspended at an await: their frames
    overlapsLeft, \* how many more handlers may be entered while another is suspended
    trips,        \* trips collection of the trip service: sequence of documents, _id = index
    ratings       \* driver_ratings collection: sequence of documents, _id = index

vars == <<lapsed, users, jobRequests, employments, handlers, overlapsLeft, trips, ratings>>

\* ------------------------------------------------------------ documents
NoDriverResponse == [set |-> FALSE, dlConsentGiven |-> FALSE, counterOffer |-> FALSE]

\* Values a request body may carry in dlConsentGiven: the boolean true, the
\* string "true", the boolean false, or nothing.
ConsentValues == {"true", "'true'", "false", Absent}
NoRejection == [set |-> FALSE, reason |-> "none", rejectedBy |-> "none"]
NoTermination == [set |-> FALSE, initiatedBy |-> "none"]

NoDoc ==
    [ companyId |-> "none", driverId |-> "none", status |-> "none",
      jobDetails |-> [serviceType |-> "none", vehicleType |-> "none",
                      contractDuration |-> 0, contractUnit |-> "none"],
      offeredSalary |-> [amount |-> 0, currency |-> "none", frequency |-> "none"],
      statusHistory |-> <<>>,
      driverResponse |-> NoDriverResponse, rejection |-> NoRejection,
      resultingEmployment |-> 0 ]

NoEmployment ==
    [ driverId |-> "none", companyId |-> "none", sourceJobRequest |-> 0,
      serviceType |-> "none", vehicleType |-> "none",
      contractDuration |-> 0, contractUnit |-> "none",
      salary |-> [amount |-> 0, currency |-> "none", frequency |-> "none"],
      status |-> "none", endDate |-> Absent, termination |-> NoTermination,
      assignmentStatus |-> Absent ]

NoUser == [role |-> "none", companyName |-> Absent, assignmentStatus |-> Absent]

\* A handler frame: the request's inputs and the handler's local variables.
Idle ==
    [ op |-> "none", pc |-> "idle", caller |-> "none", driverId |-> "none",
      requestId |-> 0, employmentId |-> 0, action |-> "none",
      dlConsentGiven |-> Absent, counterOffer |-> FALSE, reason |-> Absent,
      offer |-> [jobDetails |-> NoDoc.jobDetails, offeredSalary |-> NoDoc.offeredSalary],
      doc |-> NoDoc, loadedStatus |-> "none", dirty |-> {}, pushed |-> <<>>,
      emp |-> NoEmployment, companyName |-> Absent,
      vehicleId |-> "none", startDateTime |-> 0, endDateTime |-> 0, tripId |-> 0,
      assignmentStatus |-> Absent, propagated |-> FALSE, failed |-> FALSE,
      tripStatus |-> "none", bodyStatus |-> "none",
      overallRating |-> 0, ratingId |-> 0, found |-> {}, busy |-> {} ]

InFlight == {handlers[i] : i \in 1..Len(handlers)}

\* The place of a suspended handler whose frame is h.
IndexOf(h) == CHOOSE i \in 1..Len(handlers) : handlers[i] = h

\* A handler is entered and runs to its first await, where frame h waits.
Start(h) ==
    /\ Len(handlers) < MaxHandlers
    /\ handlers' = Append(handlers, h)
    /\ IF handlers = <<>> THEN overlapsLeft' = overlapsLeft
                          ELSE overlapsLeft > 0 /\ overlapsLeft' = overlapsLeft - 1

\* Handler h runs from its await to the next one, where frame g waits.
Goto(h, g) ==
    /\ handlers' = [handlers EXCEPT ![IndexOf(h)] = g]
    /\ UNCHANGED overlapsLeft

\* Handler h runs from its await to its response.
Finish(h) ==
    /\ handlers' = SubSeq(handlers, 1, IndexOf(h) - 1)
                     \o SubSeq(handlers, IndexOf(h) + 1, Len(handlers))
    /\ UNCHANGED overlapsLeft

RequestIds == 1..Len(jobRequests)
EmploymentIds == 1..Len(employments)

\* ------------------------------------------------------ Identity Store
\* getUserById: GET /api/users/:userId; any error is swallowed and gives null.
\* ok = FALSE is a failed or timed-out call.
getUserById(userId, ok) ==
    IF ok /\ userId \in DOMAIN users THEN users[userId] ELSE NoUser

\* JavaScript truthiness of a companyName string.
Truthy(name) == name \notin {Absent, ""}

\* ------------------------------------------------------ JobRequest model
\* jobRequestSchema.methods.updateStatus on a handler's copy of the document:
\* pushes a history entry, sets the status.  The frame records what save()
\* will have to write: the pushed entries and the paths whose value changed.
updateStatus(h, newStatus, changedBy, reason) ==
    LET previousStatus == h.doc.status
        entry == [status |-> previousStatus, changedBy |-> changedBy, reason |-> reason]
    IN [h EXCEPT !.doc.statusHistory = Append(@, entry),
                 !.pushed = Append(@, entry),
                 !.doc.status = newStatus,
                 !.dirty = IF newStatus # h.loadedStatus
                             THEN @ \cup {"status"} ELSE @ \ {"status"}]

\* jobRequestSchema.methods.canBeModified
canBeModified(doc) == doc.status \in ModifiableStatuses

\* jobRequestSchema.methods.isExpired, on the document with _id requestId:
\* expiresAt < new Date() is membership in lapsed.
isExpired(requestId, doc) == requestId \in lapsed \/ doc.status = "EXPIRED"

\* A variant of save() that writes the handler's whole copy of the history.
SaveJobRequest_SetsHistory(stored, h) ==
    [ stored EXCEPT
        !.status = IF "status" \in h.dirty THEN h.doc.status ELSE @,
        !.driverResponse = IF "driverResponse" \in h.dirty THEN h.doc.driverResponse ELSE @,
        !.rejection = IF "rejection" \in h.dirty THEN h.doc.rejection ELSE @,
        !.resultingEmployment =
            IF "resultingEmployment" \in h.dirty THEN h.doc.resultingEmployment ELSE @,
        !.statusHistory = h.doc.statusHistory ]

\* document.save() of a loaded JobRequest: $set of the modified paths and
\* $push of the new history entries onto the stored array.
SaveJobRequest(stored, h) ==
    [ stored EXCEPT
        !.status = IF "status" \in h.dirty THEN h.doc.status ELSE @,
        !.driverResponse = IF "driverResponse" \in h.dirty THEN h.doc.driverResponse ELSE @,
        !.rejection = IF "rejection" \in h.dirty THEN h.doc.rejection ELSE @,
        !.resultingEmployment =
            IF "resultingEmployment" \in h.dirty THEN h.doc.resultingEmployment ELSE @,
        !.statusHistory = @ \o h.pushed ]

\* JobRequest.findById into a fresh frame.
Load(h, requestId) ==
    [h EXCEPT !.requestId = requestId, !.doc = jobRequests[requestId],
              !.loadedStatus = jobRequests[requestId].status]

\* The model follows a request while its history has room for another entry.
HasRoom(requestId) == Len(jobRequests[requestId].statusHistory) < MaxHistory

\* await jobRequest.save() as the last database step of handler h.
SaveAndFinish(h) ==
    /\ jobRequests' = [jobRequests EXCEPT ![h.requestId] = SaveJobRequest(@, h)]
    /\ Finish(h)

\* ----------------------------------------------------- createJobRequest
\* The free-agent test of createJobRequest: TRUE when the driver is taken.
CurrentlyEmployed(driverUser) ==
    Truthy(driverUser.companyName) /\ driverUser.companyName # Unemployed

\* createJobRequest from its entry through the checks on the fetched driver:
\* the error thrown, or "findOne" when the handler goes on to the next await.
CreateOutcome(driverId, ok) ==
    LET driverUser == getUserById(driverId, ok) IN
    IF driverUser = NoUser THEN "NotFound"
    ELSE IF driverUser.role # "driver" THEN "Validation"
    ELSE IF CurrentlyEmployed(driverUser) THEN "Validation"
    ELSE "findOne"

\* JobRequest.findOne({companyId, driverId, status in [PENDING, VIEWED]})
ExistingRequest(companyId, driverId) ==
    \E r \in RequestIds :
        /\ jobRequests[r].companyId = companyId
        /\ jobRequests[r].driverId = driverId
        /\ jobRequests[r].status \in ModifiableStatuses

\* new JobRequest({...}): schema defaults applied to the body's fields.
NewJobRequest(companyId, driverId, offer) ==
    [ companyId |-> companyId, driverId |-> driverId, status |-> "PENDING",
      jobDetails |-> offer.jobDetails, offeredSalary |-> offer.offeredSalary,
      statusHistory |-> << [status |-> "PENDING", changedBy |-> companyId, reason |-> Absent] >>,
      driverResponse |-> NoDriverResponse, rejection |-> NoRejection,
      resultingEmployment |-> 0 ]

\* POST /job-requests: entry, await getUserById(driverId) and the checks on
\* its answer.  (Here and below, a call that is refused before its first
\* write changes nothing: it is a stuttering step, and its answer is the
\* value of the Outcome operator.)
CreateJobRequest_Fetch ==
    \E companyId \in Companies, driverId \in OfferedDrivers \cup Companies,
       ok \in BOOLEAN :
        /\ Len(jobRequests) < MaxRequests
        /\ CreateOutcome(driverId, ok) = "findOne"
        /\ Start([Idle EXCEPT !.op = "createJobRequest", !.pc = "findOne",
                              !.caller = companyId, !.driverId = driverId,
                              !.offer = OfferOf(companyId)])
        /\ UNCHANGED <<ratings, trips, lapsed, users, jobRequests, employments>>

\* await JobRequest.findOne(...) and the Conflict check.
CreateJobRequest_FindOne ==
    \E h \in InFlight :
        /\ h.op = "createJobRequest" /\ h.pc = "findOne"
        /\ IF ExistingRequest(h.caller, h.driverId)
             THEN Finish(h)
             ELSE Goto(h, [h EXCEPT !.pc = "save"])
        /\ UNCHANGED <<ratings, trips, lapsed, users, jobRequests, employments>>

\* await jobRequest.save(): the insert; the handler then answers 201.
CreateJobRequest_Save ==
    \E h \in InFlight :
        /\ h.op = "createJobRequest" /\ h.pc = "save"
        /\ Len(jobRequests) < MaxRequests
        /\ jobRequests' = Append(jobRequests,
                                 NewJobRequest(h.caller, h.driverId, h.offer))
        /\ Finish(h)
        /\ UNCHANGED <<ratings, trips, lapsed, users, employments>>

\* ---------------------------------------------------- getJobRequestById
\* getJobRequestById through its access checks: the error thrown, "OK" when
\* the document is returned as stored, "view" when the first view is saved.
ViewOutcome(caller, requestId) ==
    IF requestId \notin RequestIds THEN "NotFound"
    ELSE IF users[caller].role = "driver"
      THEN IF jobRequests[requestId].driverId # caller THEN "Forbidden"
           ELSE IF jobRequests[requestId].status = "PENDING" THEN "view" ELSE "OK"
      ELSE IF jobRequests[requestId].companyId # caller THEN "Forbidden" ELSE "OK"

\* GET /job-requests/:requestId up to the save of the first view.
GetJobRequestById_Load ==
    \E caller \in UserIds, requestId \in 0..Len(jobRequests) :
        /\ ViewOutcome(caller, requestId) = "view"
        /\ HasRoom(requestId)
        /\ Start(updateStatus(Load([Idle EXCEPT !.op = "getJobRequestById", !.pc = "save",
                                                !.caller = caller], requestId),
                              "VIEWED", caller, "Viewed by driver"))
        /\ UNCHANGED <<ratings, trips, lapsed, users, jobRequests, employments>>

GetJobRequestById_Save ==
    \E h \in InFlight :
        /\ h.op = "getJobRequestById" /\ h.pc = "save"
        /\ SaveAndFinish(h)
        /\ UNCHANGED <<ratings, trips, lapsed, users, employments>>

\* --------------------------------------------------- withdrawJobRequest
\* A variant of the checks of withdrawJobRequest without the ownership test.
WithdrawOutcome_AnyCompany(caller, requestId) ==
    IF requestId \notin RequestIds THEN "NotFound"
    ELSE IF jobRequests[requestId].status \notin {"PENDING", "VIEWED"} THEN "Validation"
    ELSE "withdraw"

\* withdrawJobRequest through its checks: the error thrown, or "withdraw".
WithdrawOutcome(caller, requestId) ==
    IF requestId \notin RequestIds THEN "NotFound"
    ELSE IF jobRequests[requestId].companyId # caller THEN "Forbidden"
    ELSE IF jobRequests[requestId].status \notin {"PENDING", "VIEWED"} THEN "Validation"
    ELSE "withdraw"

\* POST /job-requests/:requestId/withdraw up to await jobRequest.save().
WithdrawJobRequest_Load ==
    \E caller \in Companies, requestId \in 0..Len(jobRequests) :
        /\ WithdrawOutcome(caller, requestId) = "withdraw"
        /\ HasRoom(requestId)
        /\ Start(updateStatus(Load([Idle EXCEPT !.op = "withdrawJobRequest", !.pc = "save",
                                                !.caller = caller], requestId),
                              "WITHDRAWN", caller, "Withdrawn by company"))
        /\ UNCHANGED <<ratings, trips, lapsed, users, jobRequests, employments>>

WithdrawJobRequest_Save ==
    \E h \in InFlight :
        /\ h.op = "withdrawJobRequest" /\ h.pc = "save"
        /\ SaveAndFinish(h)
        /\ UNCHANGED <<ratings, trips, lapsed, users, employments>>

\* ---------------------------------------------------- expireOldRequests
\* JobRequest.expireOldRequests: one updateMany over the stored documents.
ToExpire == {r \in RequestIds : jobRequests[r].status \in {"PENDING", "VIEWED"}
                                  /\ r \in lapsed}

expireOldRequests ==
    /\ ToExpire # {}
    /\ \A r \in ToExpire : HasRoom(r)
    /\ jobRequests' =
         [r \in RequestIds |->
            IF r \in ToExpire
            THEN [jobRequests[r] EXCEPT
                    !.status = "EXPIRED",
                    !.statusHistory = Append(@, [status |-> "EXPIRED", changedBy |-> Absent,
                                                 reason |-> "Auto-expired"])]
            ELSE jobRequests[r]]
    /\ UNCHANGED <<ratings, trips, lapsed, users, employments, handlers, overlapsLeft>>

\* -------------------------------------------------- respondToJobRequest
\* respondToJobRequestValidation: the express-validator chain of the route.
respondToJobRequestValidation(action, reason) ==
    /\ action \in {"accept", "reject", "counter"}
    /\ reason = Absent \/ reason \in RejectionReasons

\* A variant of the consent test that compares loosely (== true).
ConsentGiven_Loose(dlConsentGiven) == dlConsentGiven \in {"true", "'true'"}

\* The consent test of the accept branch: dlConsentGiven === true.
ConsentGiven(dlConsentGiven) == dlConsentGiven = "true"

\* respondToJobRequest from the validation chain through findById, the checks
\* and the head of the switch: the error thrown, or the branch taken ("expire",
\* "accept", "reject", "counter"), each of which goes on to an await.
RespondOutcome(caller, requestId, action, dlConsentGiven, reason, counterOffer) ==
    IF ~respondToJobRequestValidation(action, reason) THEN "Validation"
    ELSE IF requestId \notin RequestIds THEN "NotFound"
    ELSE IF jobRequests[requestId].driverId # caller THEN "Forbidden"
    ELSE IF ~canBeModified(jobRequests[requestId]) THEN "Validation"
    ELSE IF isExpired(requestId, jobRequests[requestId]) THEN "expire"
    ELSE IF action = "accept"
      THEN IF ~ConsentGiven(dlConsentGiven) THEN "Validation" ELSE "accept"
    ELSE IF action = "reject" THEN "reject"
    ELSE IF ~counterOffer THEN "Validation" ELSE "counter"

\* A variant of the expiry branch that forgets to assign the status.
ExpireBranch_Unmarked(h) == [h EXCEPT !.pc = "saveExpired"]

\* The expiry branch up to await jobRequest.save(): the status is assigned.
ExpireBranch(h) ==
    [h EXCEPT !.pc = "saveExpired", !.doc.status = "EXPIRED", !.dirty = {"status"}]

\* A variant of the snapshot that leaves the salary at the schema defaults.
NewEmployment_NoSalary(userId, requestId, doc) ==
    [ driverId |-> userId, companyId |-> doc.companyId, sourceJobRequest |-> requestId,
      serviceType |-> doc.jobDetails.serviceType,
      vehicleType |-> doc.jobDetails.vehicleType,
      contractDuration |-> doc.jobDetails.contractDuration,
      contractUnit |-> doc.jobDetails.contractUnit,
      salary |-> [amount |-> 0, currency |-> "INR", frequency |-> "PER_MONTH"],
      status |-> "ACTIVE", endDate |-> Absent, termination |-> NoTermination,
      assignmentStatus |-> Absent ]

\* new Employment({...}) of the accept branch: the snapshot of the offer.
NewEmployment(userId, requestId, doc) ==
    [ driverId |-> userId, companyId |-> doc.companyId, sourceJobRequest |-> requestId,
      serviceType |-> doc.jobDetails.serviceType,
      vehicleType |-> doc.jobDetails.vehicleType,
      contractDuration |-> doc.jobDetails.contractDuration,
      contractUnit |-> doc.jobDetails.contractUnit,
      salary |-> [amount |-> doc.offeredSalary.amount,
                  currency |-> doc.offeredSalary.currency,
                  frequency |-> doc.offeredSalary.frequency],
      status |-> "ACTIVE", endDate |-> Absent, termination |-> NoTermination,
      assignmentStatus |-> Absent ]

\* The accept branch up to await employment.save().
AcceptBranch(h) ==
    [h EXCEPT !.pc = "saveEmployment",
              !.doc.driverResponse = [set |-> TRUE, dlConsentGiven |-> TRUE,
                                      counterOffer |-> FALSE],
              !.dirty = @ \cup {"driverResponse"},
              !.emp = NewEmployment(h.caller, h.requestId, h.doc)]

\* A variant of the end of the accept branch that stores the first value of
\* newStatus, ACCEPTED.
AcceptFinish_StaysAccepted(h) ==
    updateStatus([h EXCEPT !.pc = "save",
                           !.doc.resultingEmployment = h.employmentId,
                           !.dirty = @ \cup {"resultingEmployment"}],
                 "ACCEPTED", h.caller, "Driver accepted")

\* The end of the accept branch: resultingEmployment, newStatus = HIRED and
\* jobRequest.updateStatus(newStatus, userId, ...), up to the awaited save.
AcceptFinish(h) ==
    updateStatus([h EXCEPT !.pc = "save",
                           !.doc.resultingEmployment = h.employmentId,
                           !.dirty = @ \cup {"resultingEmployment"}],
                 "HIRED", h.caller, "Driver accepted")

\* The reject branch through jobRequest.updateStatus, up to the awaited save.
RejectBranch(h) ==
    updateStatus([h EXCEPT !.pc = "save",
                           !.doc.driverResponse = [set |-> TRUE, dlConsentGiven |-> FALSE,
                                                   counterOffer |-> FALSE],
                           !.doc.rejection = [set |-> TRUE, reason |-> h.reason,
                                              rejectedBy |-> "DRIVER"],
                           !.dirty = @ \cup {"driverResponse", "rejection"}],
                 "REJECTED", h.caller, "Driver rejected")

\* A variant of the counter branch that keeps the status the request had.
CounterBranch_KeepsStatus(h) ==
    updateStatus([h EXCEPT !.pc = "save",
                           !.doc.driverResponse = [set |-> TRUE, dlConsentGiven |-> FALSE,
                                                   counterOffer |-> TRUE],
                           !.dirty = @ \cup {"driverResponse"}],
                 h.doc.status, h.caller, "Driver countered")

\* The counter branch through jobRequest.updateStatus, up to the awaited save.
CounterBranch(h) ==
    updateStatus([h EXCEPT !.pc = "save",
                           !.doc.driverResponse = [set |-> TRUE, dlConsentGiven |-> FALSE,
                                                   counterOffer |-> TRUE],
                           !.dirty = @ \cup {"driverResponse"}],
                 "VIEWED", h.caller, "Driver countered")

\* POST /job-requests/:requestId/respond: validation, findById and the
\* synchronous checks and switch that follow it, up to the next await.
RespondToJobRequest_Load ==
    \E caller \in Drivers, requestId \in 0..Len(jobRequests),
       action \in {"accept", "reject", "counter"} :
    \E dlConsentGiven \in IF action = "accept" THEN ConsentValues ELSE {Absent},
       reason \in IF action = "reject" THEN {"SALARY_LOW", "BORED", Absent} ELSE {Absent},
       counterOffer \in IF action = "counter" THEN BOOLEAN ELSE {FALSE} :
        LET outcome == RespondOutcome(caller, requestId, action, dlConsentGiven,
                                      reason, counterOffer)
            h == Load([Idle EXCEPT !.op = "respondToJobRequest", !.caller = caller,
                                   !.action = action, !.dlConsentGiven = dlConsentGiven,
                                   !.reason = reason, !.counterOffer = counterOffer],
                      requestId)
        IN /\ CASE outcome = "expire" -> Start(ExpireBranch(h))
                [] outcome = "accept" -> /\ HasRoom(requestId)
                                         /\ Len(employments) < MaxEmployments
                                         /\ Start(AcceptBranch(h))
                [] outcome = "reject" -> HasRoom(requestId) /\ Start(RejectBranch(h))
                [] outcome = "counter" -> HasRoom(requestId) /\ Start(CounterBranch(h))
                [] OTHER -> FALSE
           /\ UNCHANGED <<ratings, trips, lapsed, users, jobRequests, employments>>

\* What respondToJobRequest answers when it leaves its last await from frame
\* h: the ValidationError thrown after the expiry save, else the 200.
RespondAnswer(h) == IF h.pc = "saveExpired" THEN "Validation" ELSE "OK"

\* await jobRequest.save() of the expiry branch, then the ValidationError.
RespondToJobRequest_SaveExpired ==
    \E h \in InFlight :
        /\ h.op = "respondToJobRequest" /\ h.pc = "saveExpired"
        /\ SaveAndFinish(h)
        /\ UNCHANGED <<ratings, trips, lapsed, users, employments>>

\* await employment.save(): the insert of the Employment.
RespondToJobRequest_SaveEmployment ==
    \E h \in InFlight :
        /\ h.op = "respondToJobRequest" /\ h.pc = "saveEmployment"
        /\ employments' = Append(employments, h.emp)
        /\ Goto(h, [h EXCEPT !.pc = "getCompany", !.employmentId = Len(employments) + 1])
        /\ UNCHANGED <<ratings, trips, lapsed, users, jobRequests>>

\* await getUserById(jobRequest.companyId) inside the try block.
RespondToJobRequest_GetCompany ==
    \E h \in InFlight, ok \in BOOLEAN :
        LET companyUser == getUserById(h.doc.companyId, ok) IN
        /\ h.op = "respondToJobRequest" /\ h.pc = "getCompany"
        /\ IF companyUser # NoUser /\ Truthy(companyUser.companyName)
             THEN Goto(h, [h EXCEPT !.pc = "putUser",
                                    !.companyName = companyUser.companyName])
             ELSE Goto(h, AcceptFinish([h EXCEPT !.failed = ~ok]))
        /\ UNCHANGED <<ratings, trips, lapsed, users, jobRequests, employments>>

\* PUT /api/admin/users/:id/internal-update as the Identity Store serves it:
\* only companyName is read from the body, and a body without it (Absent)
\* saves the user as loaded.
internalUpdate(userId, companyName) ==
    IF companyName = Absent THEN users
    ELSE [users EXCEPT ![userId].companyName = companyName]

\* A variant of the accept update in which a failed call is not caught: the
\* error reaches the error handler and the request is never saved.
RespondToJobRequest_PutUser_Throws ==
    \E h \in InFlight, ok \in BOOLEAN :
        /\ h.op = "respondToJobRequest" /\ h.pc = "putUser"
        /\ users' = IF ok THEN internalUpdate(h.caller, h.companyName) ELSE users
        /\ IF ok THEN Goto(h, AcceptFinish(h)) ELSE Finish(h)
        /\ UNCHANGED <<ratings, trips, lapsed, jobRequests, employments>>

\* await axios.put(.../internal-update, {companyName, assignmentStatus});
\* a failed call is caught and logged.
RespondToJobRequest_PutUser ==
    \E h \in InFlight, ok \in BOOLEAN :
        /\ h.op = "respondToJobRequest" /\ h.pc = "putUser"
        /\ users' = IF ok THEN internalUpdate(h.caller, h.companyName) ELSE users
        /\ Goto(h, AcceptFinish([h EXCEPT !.failed = ~ok]))
        /\ UNCHANGED <<ratings, trips, lapsed, jobRequests, employments>>

\* await jobRequest.save() after updateStatus; the handler then answers 200.
RespondToJobRequest_Save ==
    \E h \in InFlight :
        /\ h.op = "respondToJobRequest" /\ h.pc = "save"
        /\ SaveAndFinish(h)
        /\ UNCHANGED <<ratings, trips, lapsed, users, employments>>

\* ------------------------------------------------------- finalizeHiring
\* finalizeHiring through its checks.  Past the ACCEPTED check the handler
\* reads DriverProfile, a name the controller never imports: a ReferenceError,
\* answered 500 by the error handler before anything is written.
FinalizeOutcome(caller, requestId) ==
    IF requestId \notin RequestIds THEN "NotFound"
    ELSE IF jobRequests[requestId].companyId # caller THEN "Forbidden"
    ELSE IF jobRequests[requestId].status # "ACCEPTED" THEN "Validation"
    ELSE "ServerError"

\* POST /job-requests/:requestId/hire: every outcome is an error response.
finalizeHiring ==
    \E caller \in Companies, requestId \in 0..Len(jobRequests) :
        /\ FinalizeOutcome(caller, requestId)
             \in {"NotFound", "Forbidden", "Validation", "ServerError"}
        /\ UNCHANGED vars

\* ----------------------------------------- assignVehicle, unassignVehicle
\* assignVehicle through its checks.  Past them the handler calls
\* employment.assignVehicle, which the Employment schema does not define: a
\* TypeError, answered 500 by the error handler before anything is written.
AssignVehicleOutcome(caller, employmentId) ==
    IF employmentId \notin EmploymentIds THEN "NotFound"
    ELSE IF employments[employmentId].companyId # caller THEN "Forbidden"
    ELSE IF employments[employmentId].status # "ACTIVE" THEN "Validation"
    ELSE "ServerError"

\* unassignVehicle through its checks; employment.unassignVehicle is not a
\* method of the schema either.
UnassignVehicleOutcome(caller, employmentId) ==
    IF employmentId \notin EmploymentIds THEN "NotFound"
    ELSE IF employments[employmentId].companyId # caller THEN "Forbidden"
    ELSE "ServerError"

\* POST /employments/:employmentId/assign-vehicle: every outcome is an error.
assignVehicle ==
    \E caller \in Companies, employmentId \in 0..Len(employments) :
        /\ AssignVehicleOutcome(caller, employmentId)
             \in {"NotFound", "Forbidden", "Validation", "ServerError"}
        /\ UNCHANGED vars

\* POST /employments/:employmentId/unassign-vehicle: every outcome is an error.
unassignVehicle ==
    \E caller \in Companies, employmentId \in 0..Len(employments) :
        /\ UnassignVehicleOutcome(caller, employmentId)
             \in {"NotFound", "Forbidden", "ServerError"}
        /\ UNCHANGED vars

\* ---------------------------------- terminateEmployment, resignFromEmployment
\* A variant of the checks of terminateEmployment without the status test.
TerminateOutcome_AnyStatus(caller, employmentId) ==
    IF employmentId \notin EmploymentIds THEN "NotFound"
    ELSE IF employments[employmentId].companyId # caller THEN "Forbidden"
    ELSE "terminate"

\* terminateEmployment through its checks: the error thrown, or "terminate".
TerminateOutcome(caller, employmentId) ==
    IF employmentId \notin EmploymentIds THEN "NotFound"
    ELSE IF employments[employmentId].companyId # caller THEN "Forbidden"
    ELSE IF employments[employmentId].status \notin {"ACTIVE"} THEN "Validation"
    ELSE "terminate"

\* resignFromEmployment through its checks: the error thrown, or "resign".
ResignOutcome(caller, employmentId) ==
    IF employmentId \notin EmploymentIds THEN "NotFound"
    ELSE IF employments[employmentId].driverId # caller THEN "Forbidden"
    ELSE IF employments[employmentId].status \notin {"ACTIVE"} THEN "Validation"
    ELSE "resign"

\* A variant of save() that also writes a renegotiated salary, as the
\* unrouted updateEmployment would.
SaveEmployment_Renegotiates(stored, h) ==
    [stored EXCEPT !.status = h.emp.status, !.endDate = h.emp.endDate,
                   !.termination = h.emp.termination, !.salary.amount = 0]

\* document.save() of a loaded Employment: $set of the modified paths.
SaveEmployment(stored, h) ==
    [stored EXCEPT !.status = h.emp.status, !.endDate = h.emp.endDate,
                   !.termination = h.emp.termination]

\* POST /employments/:employmentId/terminate up to await employment.save().
TerminateEmployment_Load ==
    \E caller \in Companies, employmentId \in 0..Len(employments) :
        /\ TerminateOutcome(caller, employmentId) = "terminate"
        /\ Start([Idle EXCEPT
                           !.op = "terminateEmployment", !.pc = "save",
                           !.caller = caller, !.employmentId = employmentId,
                           !.emp = [employments[employmentId] EXCEPT
                                      !.status = "TERMINATED", !.endDate = "date",
                                      !.termination = [set |-> TRUE,
                                                       initiatedBy |-> "COMPANY"]]])
        /\ UNCHANGED <<ratings, trips, lapsed, users, jobRequests, employments>>

\* POST /employments/:employmentId/resign up to await employment.save().
ResignFromEmployment_Load ==
    \E caller \in Drivers, employmentId \in 0..Len(employments) :
        /\ ResignOutcome(caller, employmentId) = "resign"
        /\ Start([Idle EXCEPT
                           !.op = "resignFromEmployment", !.pc = "save",
                           !.caller = caller, !.employmentId = employmentId,
                           !.emp = [employments[employmentId] EXCEPT
                                      !.status = "RESIGNED", !.endDate = "date",
                                      !.termination = [set |-> TRUE,
                                                       initiatedBy |-> "DRIVER"]]])
        /\ UNCHANGED <<ratings, trips, lapsed, users, jobRequests, employments>>

\* await employment.save() of terminateEmployment and resignFromEmployment.
Release_Save ==
    \E h \in InFlight :
        /\ h.op \in {"terminateEmployment", "resignFromEmployment"} /\ h.pc = "save"
        /\ employments' = [employments EXCEPT ![h.employmentId] = SaveEmployment(@, h)]
        /\ Goto(h, [h EXCEPT !.pc = "putUser"])
        /\ UNCHANGED <<ratings, trips, lapsed, users, jobRequests>>

\* A variant of the release update that addresses the caller's user record.
Release_PutUser_Caller ==
    \E h \in InFlight, ok \in BOOLEAN :
        /\ h.op \in {"terminateEmployment", "resignFromEmployment"} /\ h.pc = "putUser"
        /\ users' = IF ok THEN internalUpdate(h.caller, Unemployed) ELSE users
        /\ Finish(h)
        /\ UNCHANGED <<ratings, trips, lapsed, jobRequests, employments>>

\* await axios.put(.../internal-update, {companyName: 'Unemployed'}); a failed
\* call is caught and logged, and the handler answers 200 either way.
Release_PutUser ==
    \E h \in InFlight, ok \in BOOLEAN :
        /\ h.op \in {"terminateEmployment", "resignFromEmployment"} /\ h.pc = "putUser"
        /\ users' = IF ok THEN internalUpdate(h.emp.driverId, Unemployed) ELSE users
        /\ Finish(h)
        /\ UNCHANGED <<ratings, trips, lapsed, jobRequests, employments>>

\* -------------------------------------------- updateDriverAssignmentStatus
\* The values a body may carry in assignmentStatus.
AssignmentValues == {"UNASSIGNED", "ASSIGNED", "BUSY"}

\* The paths of employmentSchema that the model follows.  A stored document
\* has these and no others: assignmentStatus of an Employment record is what
\* a read of the stored document gives for that name.
EmploymentPaths ==
    {"driverId", "companyId", "sourceJobRequest", "serviceType", "vehicleType",
     "contractDuration", "contractUnit", "salary", "status", "endDate", "termination"}

\* A variant of the checks that finds an employment of any status.
AssignmentOutcome_AnyStatus(driverId, assignmentStatus) ==
    IF assignmentStatus \notin {"UNASSIGNED", "ASSIGNED"} THEN "Validation"
    ELSE IF ~\E e \in EmploymentIds : employments[e].driverId = driverId
      THEN "NotFound"
    ELSE "OK"

\* updateDriverAssignmentStatus through its checks: the error thrown, or "OK".
AssignmentOutcome(driverId, assignmentStatus) ==
    IF assignmentStatus \notin {"UNASSIGNED", "ASSIGNED"} THEN "Validation"
    ELSE IF ~\E e \in EmploymentIds : /\ employments[e].driverId = driverId
                                      /\ employments[e].status = "ACTIVE"
      THEN "NotFound"
    ELSE "OK"

\* Employment.findOne({driverId, status: 'ACTIVE'}): the first in natural order.
FindActiveEmployment(driverId) ==
    CHOOSE e \in EmploymentIds :
        /\ employments[e].driverId = driverId /\ employments[e].status = "ACTIVE"
        /\ \A f \in 1..(e - 1) : ~(/\ employments[f].driverId = driverId
                                   /\ employments[f].status = "ACTIVE")

\* A variant of the save that also ends the employment.
SaveAssignment_EndsContract(stored, assignmentStatus) ==
    [stored EXCEPT !.status = "TERMINATED", !.endDate = "date"]

\* employment.assignmentStatus = assignmentStatus; await employment.save():
\* save() writes the modified schema paths, and a name that is not a path of
\* the schema is a plain property of the object that save() never sees.
SaveAssignment(stored, assignmentStatus) ==
    IF "assignmentStatus" \in EmploymentPaths
      THEN [stored EXCEPT !.assignmentStatus = assignmentStatus]
      ELSE stored

\* PATCH .../employments/driver/:driverId/assignment-status served whole, as a
\* caller of the endpoint sees it: the employments collection afterwards.
updateDriverAssignmentStatus(driverId, assignmentStatus) ==
    IF AssignmentOutcome(driverId, assignmentStatus) = "OK"
      THEN [employments EXCEPT ![FindActiveEmployment(driverId)] =
                                  SaveAssignment(@, assignmentStatus)]
      ELSE employments

\* The PATCH handler: entry, the value check, await Employment.findOne(...)
\* and the NotFound check.
UpdateDriverAssignmentStatus_FindOne ==
    \E driverId \in Drivers, assignmentStatus \in AssignmentValues :
        /\ AssignmentOutcome(driverId, assignmentStatus) = "OK"
        /\ Start([Idle EXCEPT !.op = "updateDriverAssignmentStatus", !.pc = "save",
                              !.driverId = driverId,
                              !.employmentId = FindActiveEmployment(driverId),
                              !.assignmentStatus = assignmentStatus])
        /\ UNCHANGED <<ratings, trips, lapsed, users, jobRequests, employments>>

\* await employment.save(); the handler then answers 200.
UpdateDriverAssignmentStatus_Save ==
    \E h \in InFlight :
        /\ h.op = "updateDriverAssignmentStatus" /\ h.pc = "save"
        /\ employments' = [employments EXCEPT ![h.employmentId] =
                                                SaveAssignment(@, h.assignmentStatus)]
        /\ Finish(h)
        /\ UNCHANGED <<ratings, trips, lapsed, users, jobRequests>>

\* ----------------------------------------------------------- createRating
RatingIds == 1..Len(ratings)

\* The employmentId of a body, and of a stored rating, that names none.
NoEmploymentId == -1

\* driverRatingSchema.statics.hasRatedForEmployment: DriverRating.findOne on
\* driverId, ratedBy.companyId and employmentId.
hasRatedForEmployment(driverId, companyId, employmentId) ==
    \E r \in RatingIds :
        /\ ratings[r].driverId = driverId
        /\ ratings[r].ratedBy.companyId = companyId
        /\ ratings[r].employmentId = employmentId

\* createRating through the checks on the employment it names (without an
\* employmentId: no check at all): the error thrown, or the await it goes on to.
RatingOutcome(userId, driverId, employmentId) ==
    IF employmentId = NoEmploymentId THEN "save"
    ELSE IF employmentId \notin EmploymentIds THEN "NotFound"
    ELSE IF employments[employmentId].companyId # userId THEN "Forbidden"
    ELSE IF employments[employmentId].driverId # driverId THEN "Validation"
    ELSE "hasRated"

\* new DriverRating({...}) with the schema defaults; the bodies of the model
\* carry no categoryRatings.
NewRating(h) ==
    [ driverId |-> h.driverId,
      ratedBy |-> [userId |-> h.caller, companyId |-> h.caller],
      employmentId |-> h.employmentId, overallRating |-> h.overallRating,
      isApproved |-> TRUE ]

\* The $match stage of calculateAggregateRatings.
ApprovedRatingsOf(driverId) ==
    {r \in RatingIds : ratings[r].driverId = driverId /\ ratings[r].isApproved}

RECURSIVE SumOfRatings(_)
\* The sum of overallRating over a set of stored ratings.
SumOfRatings(rs) ==
    IF rs = {} THEN 0
    ELSE LET r == CHOOSE r \in rs : TRUE
         IN ratings[r].overallRating + SumOfRatings(rs \ {r})

\* A variant of the rounding that cuts the average off after one decimal.
RoundToTenths_Floor(sum, n) == (10 * sum) \div n

\* Math.round(avg * 10) / 10 for avg = sum / n, counted in tenths:
\* Math.round is the integer nearest to its argument, halves going up.
RoundToTenths(sum, n) == (20 * sum + n) \div (2 * n)

\* driverRatingSchema.statics.calculateAggregateRatings; averageRating and
\* the breakdown are in tenths.  $avg of a field that no matched document has
\* is null, which the code turns into 0.
calculateAggregateRatings(driverId) ==
    LET matched == ApprovedRatingsOf(driverId)
        breakdown == [safety |-> 0, punctuality |-> 0, professionalism |-> 0,
                      vehicleCare |-> 0, communication |-> 0]
    IN IF matched = {}
         THEN [averageRating |-> 0, totalRatings |-> 0, breakdown |-> breakdown]
         ELSE [averageRating |-> RoundToTenths(SumOfRatings(matched), Cardinality(matched)),
               totalRatings |-> Cardinality(matched), breakdown |-> breakdown]

\* POST /ratings: entry and, when the body names an employment, await
\* Employment.findById and the checks on it.
CreateRating_FindById ==
    \E userId \in Companies, driverId \in RatedDrivers,
       employmentId \in {NoEmploymentId} \cup (0..Len(employments)),
       overallRating \in RatingValues :
        LET outcome == RatingOutcome(userId, driverId, employmentId) IN
        /\ Len(ratings) < MaxRatings
        /\ outcome \in {"hasRated", "save"}
        /\ Start([Idle EXCEPT !.op = "createRating", !.pc = outcome, !.caller = userId,
                              !.driverId = driverId, !.employmentId = employmentId,
                              !.overallRating = overallRating])
        /\ UNCHANGED <<ratings, trips, lapsed, users, jobRequests, employments>>

\* await DriverRating.hasRatedForEmployment(...) and the Conflict check.
CreateRating_HasRated ==
    \E h \in InFlight :
        /\ h.op = "createRating" /\ h.pc = "hasRated"
        /\ IF hasRatedForEmployment(h.driverId, h.caller, h.employmentId)
             THEN Finish(h)
             ELSE Goto(h, [h EXCEPT !.pc = "save"])
        /\ UNCHANGED <<ratings, trips, lapsed, users, jobRequests, employments>>

\* await rating.save(): the insert of the DriverRating.
CreateRating_Save ==
    \E h \in InFlight :
        /\ h.op = "createRating" /\ h.pc = "save"
        /\ Len(ratings) < MaxRatings
        /\ ratings' = Append(ratings, NewRating(h))
        /\ Goto(h, [h EXCEPT !.pc = "aggregate", !.ratingId = Len(ratings) + 1])
        /\ UNCHANGED <<trips, lapsed, users, jobRequests, employments>>

\* What createRating answers as driverAggregateRatings when it leaves its
\* last await from frame h.
RatingAnswer(h) == calculateAggregateRatings(h.driverId)

\* await DriverRating.calculateAggregateRatings(driverId); the handler then
\* answers 201 with the rating and the aggregate.
CreateRating_Aggregate ==
    \E h \in InFlight :
        /\ h.op = "createRating" /\ h.pc = "aggregate"
        /\ Finish(h)
        /\ UNCHANGED <<ratings, trips, lapsed, users, jobRequests, employments>>

\* ------------------------------------------------------------ createTrip
TripIds == 1..Len(trips)

\* The $or of both overlap queries of createTrip, on a stored trip t.
DatesOverlap(t, start, end) ==
    \/ t.startDateTime <= start /\ t.endDateTime >= start
    \/ t.startDateTime <= end /\ t.endDateTime >= end
    \/ t.startDateTime >= start /\ t.endDateTime <= end

\* Trip.findOne({vehicleId, status in [scheduled, in-progress], $or: ...})
vehicleOverlap(vehicleId, start, end) ==
    \E t \in TripIds :
        /\ trips[t].vehicleId = vehicleId
        /\ trips[t].status \in {"scheduled", "in-progress"}
        /\ DatesOverlap(trips[t], start, end)

\* Trip.findOne({driverId, status in [scheduled, in-progress], $or: ...})
driverOverlap(driverId, start, end) ==
    \E t \in TripIds :
        /\ trips[t].driverId = driverId
        /\ trips[t].status \in {"scheduled", "in-progress"}
        /\ DatesOverlap(trips[t], start, end)

\* createTrip from its entry through the date checks and the vehicle check:
\* the 400 answered, or the await the handler goes on to.  inRange says that
\* start is neither in the past nor more than two months ahead.
CreateTripOutcome(vehicleId, driverId, start, end, inRange) ==
    IF ~inRange THEN "BadRequest"
    ELSE IF end <= start THEN "BadRequest"
    ELSE IF vehicleOverlap(vehicleId, start, end) THEN "BadRequest"
    ELSE IF driverId # Absent THEN "findDriver"
    ELSE "getRoute"

\* new Trip({...}) with the schema default of status.
NewTrip(h) ==
    [ vehicleId |-> h.vehicleId, driverId |-> h.driverId, fleetManagerId |-> h.caller,
      startDateTime |-> h.startDateTime, endDateTime |-> h.endDateTime,
      status |-> "scheduled" ]

\* POST /trips: entry, the date checks, await Trip.findOne for the vehicle.
CreateTrip_FindVehicle ==
    \E caller \in TripManagers, vehicleId \in Vehicles, driverId \in TripDrivers,
       start \in TripTimes, end \in TripTimes, inRange \in BOOLEAN :
        LET outcome == CreateTripOutcome(vehicleId, driverId, start, end, inRange) IN
        /\ Len(trips) < MaxTrips
        /\ outcome \in {"findDriver", "getRoute"}
        /\ Start([Idle EXCEPT !.op = "createTrip", !.pc = outcome, !.caller = caller,
                              !.vehicleId = vehicleId, !.driverId = driverId,
                              !.startDateTime = start, !.endDateTime = end])
        /\ UNCHANGED <<ratings, trips, lapsed, users, jobRequests, employments>>

\* await Trip.findOne for the driver and the 400 on a conflicting trip.
CreateTrip_FindDriver ==
    \E h \in InFlight :
        /\ h.op = "createTrip" /\ h.pc = "findDriver"
        /\ IF driverOverlap(h.driverId, h.startDateTime, h.endDateTime)
             THEN Finish(h)
             ELSE Goto(h, [h EXCEPT !.pc = "getRoute"])
        /\ UNCHANGED <<ratings, trips, lapsed, users, jobRequests, employments>>

\* await mapboxService.getRoute(coordinates) in its own try block: a failed
\* call leaves route, distance and duration at their defaults.
CreateTrip_GetRoute ==
    \E h \in InFlight, ok \in BOOLEAN :
        /\ h.op = "createTrip" /\ h.pc = "getRoute"
        /\ Goto(h, [h EXCEPT !.pc = "save"])
        /\ UNCHANGED <<ratings, trips, lapsed, users, jobRequests, employments>>

\* await trip.save(): the insert of the Trip.
CreateTrip_Save ==
    \E h \in InFlight :
        /\ h.op = "createTrip" /\ h.pc = "save"
        /\ Len(trips) < MaxTrips
        /\ trips' = Append(trips, NewTrip(h))
        /\ Goto(h, [h EXCEPT !.pc = "patchVehicle", !.tripId = Len(trips) + 1])
        /\ UNCHANGED <<ratings, lapsed, users, jobRequests, employments>>

\* await axios.patch(vehicle-service .../status, {status: 'ASSIGNED'}) in its
\* own try block; the vehicle store is outside this model.
CreateTrip_PatchVehicle ==
    \E h \in InFlight, ok \in BOOLEAN :
        /\ h.op = "createTrip" /\ h.pc = "patchVehicle"
        /\ Goto(h, [h EXCEPT !.pc = IF h.driverId # Absent THEN "patchEmployment"
                                                           ELSE "notify"])
        /\ UNCHANGED <<ratings, trips, lapsed, users, jobRequests, employments>>

\* await axios.patch(.../employments/driver/:driverId/assignment-status,
\* {assignmentStatus: 'ASSIGNED'}): a failed or refused call is caught, and
\* the catch skips the Identity-Store update of the same try block.
CreateTrip_PatchEmployment ==
    \E h \in InFlight, ok \in BOOLEAN :
        /\ h.op = "createTrip" /\ h.pc = "patchEmployment"
        /\ employments' = IF ok THEN updateDriverAssignmentStatus(h.driverId, "ASSIGNED")
                                ELSE employments
        /\ Goto(h, [h EXCEPT !.pc = IF ok /\ AssignmentOutcome(h.driverId, "ASSIGNED") = "OK"
                                        THEN "putUser" ELSE "notify"])
        /\ UNCHANGED <<ratings, trips, lapsed, users, jobRequests>>

\* A variant of the trip's Identity-Store update that repairs the record: it
\* writes the company name of the driver's ACTIVE employment.
CreateTrip_PutUser_Reconciles ==
    \E h \in InFlight, ok \in BOOLEAN :
        /\ h.op = "createTrip" /\ h.pc = "putUser"
        /\ users' = IF ok
                      THEN LET e == CHOOSE e \in EmploymentIds :
                                      /\ employments[e].driverId = h.driverId
                                      /\ employments[e].status = "ACTIVE"
                           IN internalUpdate(h.driverId,
                                             users[employments[e].companyId].companyName)
                      ELSE users
        /\ Goto(h, [h EXCEPT !.pc = "notify", !.propagated = ok])
        /\ UNCHANGED <<ratings, trips, lapsed, jobRequests, employments>>

\* await axios.put(.../internal-update, {assignmentStatus: 'ASSIGNED'}): the
\* body carries no companyName.  After an answered call the try block runs to
\* its end, the console.log of the update (propagated).
CreateTrip_PutUser ==
    \E h \in InFlight, ok \in BOOLEAN :
        /\ h.op = "createTrip" /\ h.pc = "putUser"
        /\ users' = IF ok THEN internalUpdate(h.driverId, Absent) ELSE users
        /\ Goto(h, [h EXCEPT !.pc = "notify", !.propagated = ok])
        /\ UNCHANGED <<ratings, trips, lapsed, jobRequests, employments>>

\* await NotificationClient.notifyTripCreated(...) in its own try block; the
\* handler then answers 201 with the trip.
CreateTrip_Notify ==
    \E h \in InFlight, ok \in BOOLEAN :
        /\ h.op = "createTrip" /\ h.pc = "notify"
        /\ Finish(h)
        /\ UNCHANGED <<ratings, trips, lapsed, users, jobRequests, employments>>

\* ------------------------------ updateTrip, deleteTrip, startTrip, endTrip
\* A field that the body of a request does not carry (undefined).
NotSent == "<not sent>"

\* The mark of a Trip document removed by deleteOne: the document keeps its
\* place in the sequence, so that the _id of every other trip stays its index.
Deleted == "deleted"

\* The status, driverId (null is Absent) and vehicleId a PUT /trips/:id sends.
BodyStatuses == {NotSent, "scheduled", "completed", "cancelled"}
BodyDrivers == {NotSent, Absent, "d1"}
BodyVehicles == {NotSent} \cup Vehicles

\* The drivers that call the driver routes of the trip service.
TripCallers == {"d1"}

\* Trip.findById(id) answers a document.
TripFound(tripId) == tripId \in TripIds /\ trips[tripId].status # Deleted

\* updateTrip from its entry through its checks: the status answered, or
\* "save" when the handler goes on to assign the fields and save.
UpdateTripOutcome(caller, tripId, bodyStatus) ==
    IF ~TripFound(tripId) THEN "NotFound"
    ELSE IF trips[tripId].fleetManagerId # caller THEN "Forbidden"
    ELSE IF trips[tripId].status = "completed" /\ bodyStatus # "completed"
         THEN "BadRequest"
    ELSE "save"

\* The value of a path after the allowedUpdates loop.
Assigned(sent, loaded) == IF sent # NotSent THEN sent ELSE loaded

\* The paths the allowedUpdates loop modified on the loaded trip.
ModifiedPaths(trip, bodyStatus, driverId, vehicleId) ==
    {p \in {"status", "driverId", "vehicleId"} :
       \/ p = "status" /\ bodyStatus \notin {NotSent, trip.status}
       \/ p = "driverId" /\ driverId \notin {NotSent, trip.driverId}
       \/ p = "vehicleId" /\ vehicleId \notin {NotSent, trip.vehicleId}}

\* document.save() of a loaded Trip: $set of the modified paths.
SaveTrip(stored, h) ==
    [stored EXCEPT
       !.status = IF "status" \in h.dirty THEN h.tripStatus ELSE @,
       !.driverId = IF "driverId" \in h.dirty THEN h.driverId ELSE @,
       !.vehicleId = IF "vehicleId" \in h.dirty THEN h.vehicleId ELSE @]

\* The test that guards the reset of the vehicle and driver statuses.
ResetsStatuses(h) ==
    /\ h.bodyStatus # NotSent
    /\ h.bodyStatus \in {"completed", "cancelled"}
    /\ h.loadedStatus # h.bodyStatus

\* PUT /trips/:id up to await trip.save(): findById, the checks and the
\* allowedUpdates loop.  The body carries no stop, destination or pricing
\* field, so no route is recalculated.
UpdateTrip_FindById ==
    \E caller \in TripManagers, tripId \in 0..Len(trips), bodyStatus \in BodyStatuses,
       driverId \in BodyDrivers, vehicleId \in BodyVehicles :
        /\ UpdateTripOutcome(caller, tripId, bodyStatus) = "save"
        /\ Start([Idle EXCEPT
                    !.op = "updateTrip", !.pc = "save", !.caller = caller,
                    !.tripId = tripId, !.loadedStatus = trips[tripId].status,
                    !.bodyStatus = bodyStatus,
                    !.tripStatus = Assigned(bodyStatus, trips[tripId].status),
                    !.driverId = Assigned(driverId, trips[tripId].driverId),
                    !.vehicleId = Assigned(vehicleId, trips[tripId].vehicleId),
                    !.startDateTime = trips[tripId].startDateTime,
                    !.endDateTime = trips[tripId].endDateTime,
                    !.dirty = ModifiedPaths(trips[tripId], bodyStatus, driverId, vehicleId)])
        /\ UNCHANGED <<ratings, trips, lapsed, users, jobRequests, employments>>

\* await trip.save() of updateTrip, then the test on the status change.
UpdateTrip_Save ==
    \E h \in InFlight :
        /\ h.op = "updateTrip" /\ h.pc = "save"
        /\ TripFound(h.tripId)
        /\ trips' = [trips EXCEPT ![h.tripId] = SaveTrip(@, h)]
        /\ Goto(h, [h EXCEPT !.pc = IF ResetsStatuses(h) THEN "patchVehicle"
                                                          ELSE "notify"])
        /\ UNCHANGED <<ratings, lapsed, users, jobRequests, employments>>

\* await axios.patch(vehicle-service .../status, {status: 'IDLE'}) in its own
\* try block; the vehicle store is outside this model.
UpdateTrip_PatchVehicle ==
    \E h \in InFlight, ok \in BOOLEAN :
        /\ h.op = "updateTrip" /\ h.pc = "patchVehicle"
        /\ Goto(h, [h EXCEPT !.pc = IF h.driverId # Absent THEN "patchEmployment"
                                                           ELSE "notify"])
        /\ UNCHANGED <<ratings, trips, lapsed, users, jobRequests, employments>>

\* await axios.patch(.../assignment-status, {assignmentStatus: 'UNASSIGNED'}):
\* a failed or refused call is caught, and the catch skips the Identity-Store
\* update of the same try block.
UpdateTrip_PatchEmployment ==
    \E h \in InFlight, ok \in BOOLEAN :
        /\ h.op = "updateTrip" /\ h.pc = "patchEmployment"
        /\ employments' = IF ok THEN updateDriverAssignmentStatus(h.driverId, "UNASSIGNED")
                                ELSE employments
        /\ Goto(h, [h EXCEPT !.pc = IF ok /\ AssignmentOutcome(h.driverId, "UNASSIGNED") = "OK"
                                        THEN "putUser" ELSE "notify"])
        /\ UNCHANGED <<ratings, trips, lapsed, users, jobRequests>>

\* await axios.put(.../internal-update, {assignmentStatus: 'UNASSIGNED'}).
UpdateTrip_PutUser ==
    \E h \in InFlight, ok \in BOOLEAN :
        /\ h.op = "updateTrip" /\ h.pc = "putUser"
        /\ users' = IF ok THEN internalUpdate(h.driverId, Absent) ELSE users
        /\ Goto(h, [h EXCEPT !.pc = "notify", !.propagated = ok])
        /\ UNCHANGED <<ratings, trips, lapsed, jobRequests, employments>>

\* await NotificationClient.notifyTripUpdated(...) in its own try block; the
\* handler then answers 200 with the trip.
UpdateTrip_Notify ==
    \E h \in InFlight, ok \in BOOLEAN :
        /\ h.op = "updateTrip" /\ h.pc = "notify"
        /\ Finish(h)
        /\ UNCHANGED <<ratings, trips, lapsed, users, jobRequests, employments>>

\* deleteTrip from its entry through its checks.
DeleteTripOutcome(caller, tripId) ==
    IF ~TripFound(tripId) THEN "NotFound"
    ELSE IF trips[tripId].fleetManagerId # caller THEN "Forbidden"
    ELSE IF trips[tripId].status # "scheduled" THEN "BadRequest"
    ELSE "patchVehicle"

\* DELETE /trips/:id up to the reset of the vehicle status.
DeleteTrip_FindById ==
    \E caller \in TripManagers, tripId \in 0..Len(trips) :
        /\ DeleteTripOutcome(caller, tripId) = "patchVehicle"
        /\ Start([Idle EXCEPT
                    !.op = "deleteTrip", !.pc = "patchVehicle", !.caller = caller,
                    !.tripId = tripId, !.loadedStatus = trips[tripId].status,
                    !.tripStatus = trips[tripId].status,
                    !.driverId = trips[tripId].driverId,
                    !.vehicleId = trips[tripId].vehicleId,
                    !.startDateTime = trips[tripId].startDateTime,
                    !.endDateTime = trips[tripId].endDateTime])
        /\ UNCHANGED <<ratings, trips, lapsed, users, jobRequests, employments>>

\* await axios.patch(vehicle-service .../status, {status: 'IDLE'}) in its own
\* try block; the vehicle store is outside this model.
DeleteTrip_PatchVehicle ==
    \E h \in InFlight, ok \in BOOLEAN :
        /\ h.op = "deleteTrip" /\ h.pc = "patchVehicle"
        /\ Goto(h, [h EXCEPT !.pc = IF h.driverId # Absent THEN "patchEmployment"
                                                           ELSE "deleteOne"])
        /\ UNCHANGED <<ratings, trips, lapsed, users, jobRequests, employments>>

\* await axios.patch(.../assignment-status, {assignmentStatus: 'UNASSIGNED'}):
\* a failed or refused call is caught, and the catch skips the Identity-Store
\* update of the same try block.
DeleteTrip_PatchEmployment ==
    \E h \in InFlight, ok \in BOOLEAN :
        /\ h.op = "deleteTrip" /\ h.pc = "patchEmployment"
        /\ employments' = IF ok THEN updateDriverAssignmentStatus(h.driverId, "UNASSIGNED")
                                ELSE employments
        /\ Goto(h, [h EXCEPT !.pc = IF ok /\ AssignmentOutcome(h.driverId, "UNASSIGNED") = "OK"
                                        THEN "putUser" ELSE "deleteOne"])
        /\ UNCHANGED <<ratings, trips, lapsed, users, jobRequests>>

\* await axios.put(.../internal-update, {assignmentStatus: 'UNASSIGNED'}).
DeleteTrip_PutUser ==
    \E h \in InFlight, ok \in BOOLEAN :
        /\ h.op = "deleteTrip" /\ h.pc = "putUser"
        /\ users' = IF ok THEN internalUpdate(h.driverId, Absent) ELSE users
        /\ Goto(h, [h EXCEPT !.pc = "deleteOne", !.propagated = ok])
        /\ UNCHANGED <<ratings, trips, lapsed, jobRequests, employments>>

\* await trip.deleteOne().
DeleteTrip_DeleteOne ==
    \E h \in InFlight :
        /\ h.op = "deleteTrip" /\ h.pc = "deleteOne"
        /\ trips' = [trips EXCEPT ![h.tripId].status = Deleted]
        /\ Goto(h, [h EXCEPT !.pc = "notify"])
        /\ UNCHANGED <<ratings, lapsed, users, jobRequests, employments>>

\* await NotificationClient.notifyTripDeleted(...) in its own try block; the
\* handler then answers 200.
DeleteTrip_Notify ==
    \E h \in InFlight, ok \in BOOLEAN :
        /\ h.op = "deleteTrip" /\ h.pc = "notify"
        /\ Finish(h)
        /\ UNCHANGED <<ratings, trips, lapsed, users, jobRequests, employments>>

\* startTrip from its entry through its checks.  trip.driverId.toString() on
\* a trip without driver is a TypeError, answered 500 by the catch.  near says
\* that now is within three hours of the scheduled start.
StartTripOutcome(caller, tripId, near) ==
    IF ~TripFound(tripId) THEN "NotFound"
    ELSE IF trips[tripId].driverId = Absent THEN "ServerError"
    ELSE IF trips[tripId].driverId # caller THEN "Forbidden"
    ELSE IF trips[tripId].status # "scheduled" THEN "BadRequest"
    ELSE IF ~near THEN "BadRequest"
    ELSE "save"

\* PUT /trips/driver/:id/start up to await trip.save().
StartTrip_FindById ==
    \E caller \in TripCallers, tripId \in 0..Len(trips), near \in BOOLEAN :
        /\ StartTripOutcome(caller, tripId, near) = "save"
        /\ Start([Idle EXCEPT
                    !.op = "startTrip", !.pc = "save", !.caller = caller,
                    !.tripId = tripId, !.loadedStatus = trips[tripId].status,
                    !.tripStatus = "in-progress", !.dirty = {"status"},
                    !.driverId = trips[tripId].driverId,
                    !.vehicleId = trips[tripId].vehicleId])
        /\ UNCHANGED <<ratings, trips, lapsed, users, jobRequests, employments>>

\* await trip.save() of startTrip; the handler then answers 200 with the trip,
\* and calls no other service.
StartTrip_Save ==
    \E h \in InFlight :
        /\ h.op = "startTrip" /\ h.pc = "save"
        /\ TripFound(h.tripId)
        /\ trips' = [trips EXCEPT ![h.tripId] = SaveTrip(@, h)]
        /\ Finish(h)
        /\ UNCHANGED <<ratings, lapsed, users, jobRequests, employments>>

\* endTrip from its entry through its checks.
EndTripOutcome(caller, tripId) ==
    IF ~TripFound(tripId) THEN "NotFound"
    ELSE IF trips[tripId].driverId = Absent THEN "ServerError"
    ELSE IF trips[tripId].driverId # caller THEN "Forbidden"
    ELSE IF trips[tripId].status # "in-progress" THEN "BadRequest"
    ELSE "save"

\* PUT /trips/driver/:id/end up to await trip.save().
EndTrip_FindById ==
    \E caller \in TripCallers, tripId \in 0..Len(trips) :
        /\ EndTripOutcome(caller, tripId) = "save"
        /\ Start([Idle EXCEPT
                    !.op = "endTrip", !.pc = "save", !.caller = caller,
                    !.tripId = tripId, !.loadedStatus = trips[tripId].status,
                    !.tripStatus = "completed", !.dirty = {"status"},
                    !.driverId = trips[tripId].driverId,
                    !.vehicleId = trips[tripId].vehicleId])
        /\ UNCHANGED <<ratings, trips, lapsed, users, jobRequests, employments>>

\* await trip.save() of endTrip; the handler then answers 200 with the trip,
\* and calls no other service.
EndTrip_Save ==
    \E h \in InFlight :
        /\ h.op = "endTrip" /\ h.pc = "save"
        /\ TripFound(h.tripId)
        /\ trips' = [trips EXCEPT ![h.tripId] = SaveTrip(@, h)]
        /\ Finish(h)
        /\ UNCHANGED <<ratings, lapsed, users, jobRequests, employments>>

\* ---------------------------------------------------- getAvailableDrivers
\* The x-auth-token header of the GET /api/trips that getAvailableDrivers
\* sends: it sends none (only x-user-id).
AvailabilityToken == Absent

\* GET /api/trips behind authMiddleware of the trip service, for a call that
\* reached the service (ok): 401 without a token, else getTrips, the trips of
\* the fleet manager whose token it is.
TripsAnswered(ok, token) == ok /\ token # Absent

getTrips(userId) == {t \in TripIds : trips[t].fleetManagerId = userId}

\* The overlap test of getAvailableDrivers on a requested and a trip interval.
RequestOverlaps(requestStart, requestEnd, tripStart, tripEnd) ==
    \/ requestStart <= tripEnd /\ requestEnd >= tripStart
    \/ tripStart <= requestEnd /\ tripEnd >= requestStart

\* busyDriverIds after the try block around the trip-service call.  A query
\* without startDateTime or endDateTime has 0 for it.
busyDriverIds(companyId, startDateTime, endDateTime, ok) ==
    IF ~TripsAnswered(ok, AvailabilityToken) THEN {}
    ELSE LET relevantTrips == {t \in getTrips(companyId) :
                                 trips[t].status \in {"scheduled", "in-progress"}}
         IN IF startDateTime # 0 /\ endDateTime # 0
              THEN {trips[t].driverId :
                      t \in {u \in relevantTrips :
                               /\ trips[u].driverId # Absent
                               /\ RequestOverlaps(startDateTime, endDateTime,
                                                  trips[u].startDateTime,
                                                  trips[u].endDateTime)}}
              ELSE {trips[t].driverId :
                      t \in {u \in relevantTrips : trips[u].driverId # Absent}}

\* A variant of the answer that leaves out an employment whose driver could
\* not be fetched.
AvailableAnswer_DropsUnknown(h, failed) ==
    {[employmentId |-> e,
      driverDetails |-> getUserById(employments[e].driverId, TRUE)] :
        e \in {f \in h.found : /\ employments[f].driverId \notin h.busy
                               /\ employments[f].driverId \notin failed}}

\* The employments that getAvailableDrivers answers from frame h when the
\* getUserById calls for the drivers in failed fail: those found, less the
\* busy drivers', each with driverDetails (NoUser for null).
AvailableAnswer(h, failed) ==
    {[employmentId |-> e,
      driverDetails |-> getUserById(employments[e].driverId,
                                    employments[e].driverId \notin failed)] :
        e \in {f \in h.found : employments[f].driverId \notin h.busy}}

\* GET /employments/available: entry and await Employment.find({companyId,
\* status: 'ACTIVE'}).
GetAvailableDrivers_Find ==
    \E companyId \in Companies, startDateTime \in 0..MaxTime, endDateTime \in 0..MaxTime :
        /\ Start([Idle EXCEPT !.op = "getAvailableDrivers", !.pc = "getTrips",
                              !.caller = companyId, !.startDateTime = startDateTime,
                              !.endDateTime = endDateTime,
                              !.found = {e \in EmploymentIds :
                                           /\ employments[e].companyId = companyId
                                           /\ employments[e].status = "ACTIVE"}])
        /\ UNCHANGED <<ratings, trips, lapsed, users, jobRequests, employments>>

\* await axios.get(trip-service /api/trips) in its try block, and the filters.
GetAvailableDrivers_GetTrips ==
    \E h \in InFlight, ok \in BOOLEAN :
        /\ h.op = "getAvailableDrivers" /\ h.pc = "getTrips"
        /\ Goto(h, [h EXCEPT !.pc = "getUsers",
                             !.busy = busyDriverIds(h.caller, h.startDateTime,
                                                    h.endDateTime, ok)])
        /\ UNCHANGED <<ratings, trips, lapsed, users, jobRequests, employments>>

\* await Promise.all(... getUserById ...); the handler then answers 200 with
\* AvailableAnswer.
GetAvailableDrivers_GetUsers ==
    \E h \in InFlight, failed \in SUBSET Drivers :
        /\ h.op = "getAvailableDrivers" /\ h.pc = "getUsers"
        /\ Finish(h)
        /\ UNCHANGED <<ratings, trips, lapsed, users, jobRequests, employments>>

\* ----------------------------------------------------------------- time
\* The clock passes the expiresAt of a stored request (any date the body
\* gave, or the schema default of 30 days after creation).  Only an open
\* request is followed: nothing reads expiresAt of a closed one.
Lapse ==
    \E r \in RequestIds \ lapsed :
        /\ jobRequests[r].status \in ModifiableStatuses
        /\ lapsed' = lapsed \cup {r}
        /\ UNCHANGED <<ratings, trips, users, jobRequests, employments, handlers, overlapsLeft>>

\* -------------------------------------------------------- specification
\* The stores after deployment: registered users, empty collections.
Stores ==
    /\ lapsed = {}
    /\ users = [u \in UserIds |->
                  IF u \in Drivers
                    THEN [role |-> "driver", companyName |-> Absent,
                          assignmentStatus |-> Absent]
                    ELSE [role |-> "fleetmanager",
                          companyName |-> IF u = "c1" THEN "Acme" ELSE "Beta",
                          assignmentStatus |-> Absent]]
    /\ jobRequests = <<>>
    /\ employments = <<>>
    /\ handlers = <<>>
    /\ trips = <<>>
    /\ ratings = <<>>

\* The stores after company c1 made an offer to driver d1 and d1 accepted it.
HiredStores ==
    LET offer == NewJobRequest("c1", "d1", OfferOf("c1")) IN
    /\ lapsed = {}
    /\ users = [u \in UserIds |->
                  IF u \in Drivers
                    THEN [role |-> "driver",
                          companyName |-> IF u = "d1" THEN "Acme" ELSE Absent,
                          assignmentStatus |-> Absent]
                    ELSE [role |-> "fleetmanager",
                          companyName |-> IF u = "c1" THEN "Acme" ELSE "Beta",
                          assignmentStatus |-> Absent]]
    /\ jobRequests =
         << [offer EXCEPT
               !.status = "HIRED",
               !.statusHistory = Append(@, [status |-> "PENDING", changedBy |-> "d1",
                                            reason |-> "Driver accepted"]),
               !.driverResponse = [set |-> TRUE, dlConsentGiven |-> TRUE,
                                   counterOffer |-> FALSE],
               !.resultingEmployment = 1] >>
    /\ employments = << NewEmployment("d1", 1, offer) >>
    /\ handlers = <<>>
    /\ trips = <<>>
    /\ ratings = <<>>

\* Requests arrive one at a time: each handler answers before the next enters.
Init == Stores /\ overlapsLeft = 0

\* Requests may overlap: a handler may be entered while another is suspended.
InitRace == Stores /\ overlapsLeft = MaxOverlaps

Next ==
    \/ Lapse
    \/ CreateJobRequest_Fetch
    \/ CreateJobRequest_FindOne
    \/ CreateJobRequest_Save
    \/ GetJobRequestById_Load
    \/ GetJobRequestById_Save
    \/ WithdrawJobRequest_Load
    \/ WithdrawJobRequest_Save
    \/ expireOldRequests
    \/ RespondToJobRequest_Load
    \/ RespondToJobRequest_SaveExpired
    \/ RespondToJobRequest_SaveEmployment
    \/ RespondToJobRequest_GetCompany
    \/ RespondToJobRequest_PutUser
    \/ RespondToJobRequest_Save
    \/ finalizeHiring
    \/ assignVehicle
    \/ unassignVehicle
    \/ TerminateEmployment_Load
    \/ ResignFromEmployment_Load
    \/ Release_Save
    \/ Release_PutUser

\* The job-request handlers alone, within the life of the requests: no
\* expiresAt passes and no employment is ended.
NextRace ==
    \/ CreateJobRequest_Fetch
    \/ CreateJobRequest_FindOne
    \/ CreateJobRequest_Save
    \/ GetJobRequestById_Load
    \/ GetJobRequestById_Save
    \/ WithdrawJobRequest_Load
    \/ WithdrawJobRequest_Save
    \/ RespondToJobRequest_Load
    \/ RespondToJobRequest_SaveEmployment
    \/ RespondToJobRequest_GetCompany
    \/ RespondToJobRequest_PutUser
    \/ RespondToJobRequest_Save

\* The hiring and release handlers alone: offers are made and accepted,
\* employments are ended, and no expiresAt passes.
NextRelease ==
    \/ CreateJobRequest_Fetch
    \/ CreateJobRequest_FindOne
    \/ CreateJobRequest_Save
    \/ RespondToJobRequest_Load
    \/ RespondToJobRequest_SaveEmployment
    \/ RespondToJobRequest_GetCompany
    \/ RespondToJobRequest_PutUser
    \/ RespondToJobRequest_Save
    \/ TerminateEmployment_Load
    \/ ResignFromEmployment_Load
    \/ Release_Save
    \/ Release_PutUser

\* Hiring, release and trip planning, one request at a time: no expiresAt
\* passes, and requests are neither viewed nor withdrawn.
NextTrip ==
    \/ CreateJobRequest_Fetch
    \/ CreateJobRequest_FindOne
    \/ CreateJobRequest_Save
    \/ RespondToJobRequest_Load
    \/ RespondToJobRequest_SaveEmployment
    \/ RespondToJobRequest_GetCompany
    \/ RespondToJobRequest_PutUser
    \/ RespondToJobRequest_Save
    \/ TerminateEmployment_Load
    \/ ResignFromEmployment_Load
    \/ Release_Save
    \/ Release_PutUser
    \/ CreateTrip_FindVehicle
    \/ CreateTrip_FindDriver
    \/ CreateTrip_GetRoute
    \/ CreateTrip_Save
    \/ CreateTrip_PatchVehicle
    \/ CreateTrip_PatchEmployment
    \/ CreateTrip_PutUser
    \/ CreateTrip_Notify

\* Hiring and release with the assignment toggle called directly, one
\* request at a time.
NextAssign ==
    \/ CreateJobRequest_Fetch
    \/ CreateJobRequest_FindOne
    \/ CreateJobRequest_Save
    \/ RespondToJobRequest_Load
    \/ RespondToJobRequest_SaveEmployment
    \/ RespondToJobRequest_GetCompany
    \/ RespondToJobRequest_PutUser
    \/ RespondToJobRequest_Save
    \/ TerminateEmployment_Load
    \/ ResignFromEmployment_Load
    \/ Release_Save
    \/ Release_PutUser
    \/ UpdateDriverAssignmentStatus_FindOne
    \/ UpdateDriverAssignmentStatus_Save

\* Ratings of a hired driver; a rating may be sent while another is handled.
InitRating == HiredStores /\ overlapsLeft = MaxOverlaps

NextRating ==
    \/ CreateRating_FindById
    \/ CreateRating_HasRated
    \/ CreateRating_Save
    \/ CreateRating_Aggregate

\* Trip planning, availability queries and release for a hired driver, one
\* request at a time.
InitAvailable == HiredStores /\ overlapsLeft = 0

NextAvailable ==
    \/ CreateTrip_FindVehicle
    \/ CreateTrip_FindDriver
    \/ CreateTrip_GetRoute
    \/ CreateTrip_Save
    \/ CreateTrip_PatchVehicle
    \/ CreateTrip_PatchEmployment
    \/ CreateTrip_PutUser
    \/ CreateTrip_Notify
    \/ TerminateEmployment_Load
    \/ ResignFromEmployment_Load
    \/ Release_Save
    \/ Release_PutUser
    \/ GetAvailableDrivers_Find
    \/ GetAvailableDrivers_GetTrips
    \/ GetAvailableDrivers_GetUsers

Spec == Init /\ [][Next]_vars
SpecAvailable == InitAvailable /\ [][NextAvailable]_vars
SpecRating == InitRating /\ [][NextRating]_vars
SpecAssign == Init /\ [][NextAssign]_vars
SpecTrip == Init /\ [][NextTrip]_vars
SpecRace == InitRace /\ [][NextRace]_vars
SpecRelease == InitRace /\ [][NextRelease]_vars

\* The names a fleet manager's account may carry: registration takes any
\* non-empty string, a Google sign-in leaves the name absent until the
\* profile is completed, and PUT /profile stores whatever string it is sent.
CompanyNames == {"Acme", Absent, "", "Unemployed"}

\* The stores after deployment, for each name the companies may carry.
InitNames ==
    /\ lapsed = {}
    /\ \E name \in CompanyNames :
          users = [u \in UserIds |->
                     IF u \in Drivers
                       THEN [role |-> "driver", companyName |-> Absent,
                             assignmentStatus |-> Absent]
                       ELSE [role |-> "fleetmanager", companyName |-> name,
                             assignmentStatus |-> Absent]]
    /\ jobRequests = <<>>
    /\ employments = <<>>
    /\ handlers = <<>>
    /\ trips = <<>>
    /\ ratings = <<>>
    /\ overlapsLeft = 0

\* Offers and the answers to them, one request at a time.
NextNames ==
    \/ CreateJobRequest_Fetch
    \/ CreateJobRequest_FindOne
    \/ CreateJobRequest_Save
    \/ RespondToJobRequest_Load
    \/ RespondToJobRequest_SaveEmployment
    \/ RespondToJobRequest_GetCompany
    \/ RespondToJobRequest_PutUser
    \/ RespondToJobRequest_Save

SpecNames == InitNames /\ [][NextNames]_vars

\* The trip service and the collaborators it calls, for a driver in c1's
\* employment, one request at a time.
InitFleet == HiredStores /\ overlapsLeft = 0

NextFleet ==
    \/ CreateTrip_FindVehicle
    \/ CreateTrip_FindDriver
    \/ CreateTrip_GetRoute
    \/ CreateTrip_Save
    \/ CreateTrip_PatchVehicle
    \/ CreateTrip_PatchEmployment
    \/ CreateTrip_PutUser
    \/ CreateTrip_Notify
    \/ UpdateTrip_FindById
    \/ UpdateTrip_Save
    \/ UpdateTrip_PatchVehicle
    \/ UpdateTrip_PatchEmployment
    \/ UpdateTrip_PutUser
    \/ UpdateTrip_Notify
    \/ DeleteTrip_FindById
    \/ DeleteTrip_PatchVehicle
    \/ DeleteTrip_PatchEmployment
    \/ DeleteTrip_PutUser
    \/ DeleteTrip_DeleteOne
    \/ DeleteTrip_Notify
    \/ StartTrip_FindById
    \/ StartTrip_Save
    \/ EndTrip_FindById
    \/ EndTrip_Save

SpecFleet == InitFleet /\ [][NextFleet]_vars

\* The steps of handlers in flight: the event loop resumes every suspended
\* handler whose awaited call has settled.  The arrival of new requests (the
\* FindById and FindVehicle steps) is up to the clients.
FleetResumes ==
    \/ CreateTrip_FindDriver
    \/ CreateTrip_GetRoute
    \/ CreateTrip_Save
    \/ CreateTrip_PatchVehicle
    \/ CreateTrip_PatchEmployment
    \/ CreateTrip_PutUser
    \/ CreateTrip_Notify
    \/ UpdateTrip_Save
    \/ UpdateTrip_PatchVehicle
    \/ UpdateTrip_PatchEmployment
    \/ UpdateTrip_PutUser
    \/ UpdateTrip_Notify
    \/ DeleteTrip_PatchVehicle
    \/ DeleteTrip_PatchEmployment
    \/ DeleteTrip_PutUser
    \/ DeleteTrip_DeleteOne
    \/ DeleteTrip_Notify
    \/ StartTrip_Save
    \/ EndTrip_Save

\* The step is not one in which a propagation call for a driver fails: a
\* handler that awaits the assignment-status PATCH goes on to the PUT, and one
\* that awaits the PUT runs its try block to the end.
CallsAnswered ==
    \A i \in 1..Len(handlers) :
        (/\ i \in 1..Len(handlers')
         /\ handlers[i].op \in {"createTrip", "updateTrip", "deleteTrip"}
         /\ handlers'[i].op = handlers[i].op
         /\ handlers'[i].tripId = handlers[i].tripId)
          => /\ handlers[i].pc = "patchEmployment" => handlers'[i].pc = "putUser"
             /\ handlers[i].pc = "putUser" => handlers'[i].propagated

\* The trip service while every propagation call is answered, under the
\* scheduling of the event loop: every handler in flight runs on to its answer.
NextFleetAnswered ==
    \/ CreateTrip_FindVehicle
    \/ CreateTrip_FindDriver
    \/ CreateTrip_GetRoute
    \/ CreateTrip_Save
    \/ CreateTrip_PatchVehicle
    \/ CreateTrip_PatchEmployment /\ CallsAnswered
    \/ CreateTrip_PutUser /\ CallsAnswered
    \/ CreateTrip_Notify
    \/ UpdateTrip_FindById
    \/ UpdateTrip_Save
    \/ UpdateTrip_PatchVehicle
    \/ UpdateTrip_PatchEmployment /\ CallsAnswered
    \/ UpdateTrip_PutUser /\ CallsAnswered
    \/ UpdateTrip_Notify
    \/ DeleteTrip_FindById
    \/ DeleteTrip_PatchVehicle
    \/ DeleteTrip_PatchEmployment /\ CallsAnswered
    \/ DeleteTrip_PutUser /\ CallsAnswered
    \/ DeleteTrip_DeleteOne
    \/ DeleteTrip_Notify
    \/ StartTrip_FindById
    \/ StartTrip_Save
    \/ EndTrip_FindById
    \/ EndTrip_Save

SpecFleetLive ==
    /\ InitFleet
    /\ [][NextFleetAnswered]_vars
    /\ WF_vars(FleetResumes /\ CallsAnswered)

\* ================================================================ properties
\* The step is taken by the suspended handler at place i of handlers: its
\* frame moves to its next await, or leaves because the handler answered.
StepOf(i) ==
    /\ i \in 1..Len(handlers)
    /\ \/ handlers' = SubSeq(handlers, 1, i - 1) \o SubSeq(handlers, i + 1, Len(handlers))
       \/ /\ Len(handlers') = Len(handlers)
          /\ handlers'[i] # handlers[i]
          /\ \A j \in 1..Len(handlers) \ {i} : handlers'[j] = handlers[j]

\* The step is the last one of the handler at place i: it answers.
Answers(i) == StepOf(i) /\ Len(handlers') < Len(handlers)

\* The stored requests other than r are left as they are.
OthersUnchanged(r) ==
    /\ Len(jobRequests') = Len(jobRequests)
    /\ \A q \in RequestIds \ {r} : jobRequests'[q] = jobRequests[q]

ActiveEmploymentsOf(d) ==
    {e \in EmploymentIds : employments[e].driverId = d /\ employments[e].status = "ACTIVE"}

\* C1: in every reachable state every driver has at most one Employment with
\* status ACTIVE.
C1_OneActiveEmploymentPerDriver ==
    \A d \in Drivers : Cardinality(ActiveEmploymentsOf(d)) <= 1

OpenRequestsOf(c, d) ==
    {r \in RequestIds : /\ jobRequests[r].companyId = c
                        /\ jobRequests[r].driverId = d
                        /\ jobRequests[r].status \in {"PENDING", "VIEWED"}}

\* C2: for every company and driver at most one JobRequest of the pair has a
\* status in {PENDING, VIEWED}, whatever the interleaving of createJobRequest
\* handlers.
C2_OneOpenRequestPerPair ==
    \A c \in Companies, d \in Drivers : Cardinality(OpenRequestsOf(c, d)) <= 1

\* C3: once the persisted status of a JobRequest is one of REJECTED,
\* WITHDRAWN, EXPIRED, HIRED, CANCELLED, no step changes it again, also when
\* respond and withdraw handlers for the request interleave.
C3_TerminalStatusIsFinal ==
    [][\A r \in RequestIds :
          jobRequests[r].status \in TerminalStatuses
            => jobRequests'[r].status = jobRequests[r].status]_vars

\* C4: in every reachable state at most one Employment has sourceJobRequest
\* = R, for every JobRequest R, also when two accepts of R run concurrently.
C4_OneEmploymentPerRequest ==
    \A r \in RequestIds :
        Cardinality({e \in EmploymentIds : employments[e].sourceJobRequest = r}) <= 1

\* What the accept handler with frame h leaves behind at its last save: the
\* request HIRED and pointing to the handler's own Employment, which is ACTIVE
\* and carries the driver, the company and the offer of the request.
HiredBy(h) ==
    LET r == h.requestId
        e == jobRequests'[r].resultingEmployment
    IN /\ jobRequests'[r].status = "HIRED"
       /\ e = h.employmentId
       /\ e \in 1..Len(employments')
       /\ employments'[e].status = "ACTIVE"
       /\ employments'[e].driverId = h.caller
       /\ employments'[e].driverId = jobRequests[r].driverId
       /\ employments'[e].companyId = jobRequests[r].companyId
       /\ employments'[e].sourceJobRequest = r
       /\ employments'[e].salary = jobRequests[r].offeredSalary
       /\ employments'[e].serviceType = jobRequests[r].jobDetails.serviceType
       /\ employments'[e].vehicleType = jobRequests[r].jobDetails.vehicleType
       /\ employments'[e].contractDuration = jobRequests[r].jobDetails.contractDuration
       /\ employments'[e].contractUnit = jobRequests[r].jobDetails.contractUnit

AcceptWithoutConsent(i) ==
    /\ handlers[i].op = "respondToJobRequest"
    /\ handlers[i].action = "accept"
    /\ handlers[i].dlConsentGiven # "true"

\* C6 as stated: no step of an accept without consent changes the number of
\* Employments or the request's status, statusHistory or resultingEmployment.
C6_NoConsentChangesNothing ==
    [][\A i \in 1..Len(handlers) :
          (StepOf(i) /\ AcceptWithoutConsent(i))
            => LET r == handlers[i].requestId IN
               /\ Len(employments') = Len(employments)
               /\ jobRequests'[r].status = jobRequests[r].status
               /\ jobRequests'[r].statusHistory = jobRequests[r].statusHistory
               /\ jobRequests'[r].resultingEmployment = jobRequests[r].resultingEmployment]_vars

\* C6 amended: an accept by the addressed driver whose dlConsentGiven is not
\* the boolean true is never taken up: it is refused with Validation at
\* once, or, on a PENDING/VIEWED request past its expiresAt, after the save
\* that marks the request EXPIRED.  No Employment is created, statusHistory
\* and resultingEmployment stay as they are, and the status stays as it is
\* except for that change to EXPIRED.
C6_NoConsentNoHire ==
    [][/\ \A r \in RequestIds, c \in ConsentValues \ {"true"} :
            LET outcome == RespondOutcome(jobRequests[r].driverId, r, "accept", c,
                                          Absent, FALSE)
            IN /\ outcome \in {"Validation", "expire"}
               /\ outcome = "expire"
                    => (jobRequests[r].status \in {"PENDING", "VIEWED"} /\ r \in lapsed)
       /\ \A i \in 1..Len(handlers) :
            (StepOf(i) /\ AcceptWithoutConsent(i))
              => LET r == handlers[i].requestId IN
                 /\ Answers(i) /\ RespondAnswer(handlers[i]) = "Validation"
                 /\ employments' = employments
                 /\ OthersUnchanged(r)
                 /\ jobRequests'[r].statusHistory = jobRequests[r].statusHistory
                 /\ jobRequests'[r].resultingEmployment = jobRequests[r].resultingEmployment
                 /\ \/ jobRequests'[r].status = jobRequests[r].status
                    \/ /\ jobRequests[r].status \in {"PENDING", "VIEWED"}
                       /\ r \in lapsed
                       /\ jobRequests'[r].status = "EXPIRED"]_vars

\* C6 witness: an accept without consent has passed the checks of an expired
\* request and waits at the save that marks it EXPIRED.
C6_Witness ==
    \E i \in 1..Len(handlers) :
        /\ AcceptWithoutConsent(i)
        /\ handlers[i].pc = "saveExpired"
        /\ jobRequests[handlers[i].requestId].status \in {"PENDING", "VIEWED"}

\* Bodies of respondToJobRequest that pass the validation chain: every
\* action, with the fields its branch reads.
RespondBodies ==
    [action : {"accept"}, dlConsentGiven : ConsentValues,
     reason : {Absent}, counterOffer : {FALSE}]
    \cup [action : {"reject"}, dlConsentGiven : {Absent},
          reason : {"SALARY_LOW", Absent}, counterOffer : {FALSE}]
    \cup [action : {"counter"}, dlConsentGiven : {Absent},
          reason : {Absent}, counterOffer : BOOLEAN]

\* C7: respondToJobRequest by the addressed driver, with any action, on a
\* PENDING/VIEWED request whose expiresAt is in the past takes the expiry
\* branch: its save stores status EXPIRED and nothing else (no driverResponse,
\* no rejection, no resultingEmployment, no Employment), and the handler
\* answers Validation.
C7_ExpiredRequest ==
    [][/\ \A r \in RequestIds, b \in RespondBodies :
            (jobRequests[r].status \in {"PENDING", "VIEWED"} /\ r \in lapsed)
              => RespondOutcome(jobRequests[r].driverId, r, b.action, b.dlConsentGiven,
                                b.reason, b.counterOffer) = "expire"
       /\ (Len(handlers') > Len(handlers)
             /\ handlers'[Len(handlers')].op = "respondToJobRequest"
             /\ handlers'[Len(handlers')].requestId \in lapsed)
            => handlers'[Len(handlers')].pc = "saveExpired"
       /\ \A i \in 1..Len(handlers) :
            (StepOf(i) /\ handlers[i].op = "respondToJobRequest"
                       /\ handlers[i].pc = "saveExpired")
              => LET r == handlers[i].requestId IN
                 /\ Answers(i) /\ RespondAnswer(handlers[i]) = "Validation"
                 /\ jobRequests'[r].status = "EXPIRED"
                 /\ jobRequests'[r].driverResponse = jobRequests[r].driverResponse
                 /\ jobRequests'[r].rejection = jobRequests[r].rejection
                 /\ jobRequests'[r].resultingEmployment = jobRequests[r].resultingEmployment
                 /\ OthersUnchanged(r)
                 /\ employments' = employments]_vars

\* C7 witness: a request marked EXPIRED by a response to it (the sweep would
\* have left an "Auto-expired" entry), with no response recorded on it.
C7_Witness ==
    \E r \in RequestIds :
        /\ jobRequests[r].status = "EXPIRED"
        /\ r \in lapsed
        /\ \A k \in 1..Len(jobRequests[r].statusHistory) :
              jobRequests[r].statusHistory[k].reason # "Auto-expired"
        /\ ~jobRequests[r].driverResponse.set

\* A user whose companyName is present and different from "Unemployed".
NamedEmployed(u) == u.companyName # Absent /\ u.companyName # Unemployed

\* C8: createJobRequest for a driver whose companyName is present and
\* different from "Unemployed" fails with Validation; for a driver whose
\* companyName is absent or "Unemployed" it does not fail the free-agent check.
C8_FreeAgentCheck ==
    \A d \in Drivers, ok \in BOOLEAN :
        IF NamedEmployed(users[d])
        THEN CreateOutcome(d, ok) = "Validation"
        ELSE CreateOutcome(d, ok) # "Validation"

\* The edges of the JobRequest state machine.
ListedEdges ==
    {"PENDING", "VIEWED"} \X {"VIEWED", "WITHDRAWN", "EXPIRED", "REJECTED", "HIRED"}

\* C9: every change of a JobRequest's stored status, by any operation, is one
\* of the edges PENDING->VIEWED, {PENDING,VIEWED}->WITHDRAWN, ->EXPIRED,
\* ->REJECTED, ->VIEWED, ->HIRED.
C9_OnlyListedEdges ==
    [][\A r \in RequestIds :
          jobRequests'[r].status # jobRequests[r].status
            => <<jobRequests[r].status, jobRequests'[r].status>> \in ListedEdges]_vars

\* C10: every step that changes the stored status of a JobRequest appends
\* exactly one statusHistory entry in the same write, and when the step is a
\* respondToJobRequest handler's, the entry has changedBy = the responding
\* driver.
C10_StatusChangeAppendsHistory ==
    [][\A r \in RequestIds :
          jobRequests'[r].status # jobRequests[r].status
            => LET before == jobRequests[r].statusHistory
                   after == jobRequests'[r].statusHistory
               IN /\ Len(after) = Len(before) + 1
                  /\ SubSeq(after, 1, Len(before)) = before
                  /\ \A i \in 1..Len(handlers) :
                        (StepOf(i) /\ handlers[i].op = "respondToJobRequest"
                                   /\ handlers[i].requestId = r)
                          => after[Len(after)].changedBy = handlers[i].caller]_vars

\* C11: in every stored state a JobRequest has resultingEmployment set if and
\* only if its status is HIRED, and once set the reference never changes.
C11_ResultingEmploymentOnce ==
    [][\A r \in RequestIds :
          /\ (jobRequests'[r].resultingEmployment # 0) <=> (jobRequests'[r].status = "HIRED")
          /\ jobRequests[r].resultingEmployment # 0
               => jobRequests'[r].resultingEmployment = jobRequests[r].resultingEmployment]_vars

C13_RejectNeedsReason ==
    [][/\ \A r \in RequestIds, reason \in {"SALARY_LOW", "BORED", Absent} :
            (jobRequests[r].status \in {"PENDING", "VIEWED"} /\ r \notin lapsed)
              => RespondOutcome(jobRequests[r].driverId, r, "reject", Absent, reason, FALSE)
                   = IF reason \in RejectionReasons THEN "reject" ELSE "Validation"
       /\ \A i \in 1..Len(handlers) :
            (/\ StepOf(i)
             /\ handlers[i].op = "respondToJobRequest"
             /\ handlers[i].action = "reject"
             /\ handlers[i].pc = "save")
              => LET r == handlers[i].requestId IN
                 /\ jobRequests'[r].status = "REJECTED"
                 /\ jobRequests'[r].rejection.reason \in RejectionReasons
                 /\ jobRequests'[r].rejection.rejectedBy = "DRIVER"
                 /\ employments' = employments]_vars

\* The handler at place i is a counter of the given kind: with or without a
\* counterOffer in its body.
CounterHandler(i, withOffer) ==
    /\ handlers[i].op = "respondToJobRequest"
    /\ handlers[i].action = "counter"
    /\ handlers[i].counterOffer = withOffer

C15_WithdrawByOwnerWhileOpen ==
    [][/\ \A c \in Companies, r \in RequestIds :
            WithdrawOutcome(c, r) =
                IF jobRequests[r].companyId # c THEN "Forbidden"
                ELSE IF jobRequests[r].status \in {"PENDING", "VIEWED"} THEN "withdraw"
                ELSE "Validation"
       /\ (Len(handlers') > Len(handlers)
             /\ handlers'[Len(handlers')].op = "withdrawJobRequest")
            => LET h == handlers'[Len(handlers')] IN
               /\ h.caller = jobRequests[h.requestId].companyId
               /\ jobRequests[h.requestId].status \in {"PENDING", "VIEWED"}
               /\ jobRequests' = jobRequests /\ employments' = employments
       /\ \A i \in 1..Len(handlers) :
            (StepOf(i) /\ handlers[i].op = "withdrawJobRequest")
              => LET r == handlers[i].requestId IN
                 /\ Answers(i)
                 /\ jobRequests'[r].status = "WITHDRAWN"
                 /\ jobRequests'[r] =
                      [jobRequests[r] EXCEPT
                         !.status = "WITHDRAWN",
                         !.statusHistory = jobRequests'[r].statusHistory]
                 /\ Len(jobRequests'[r].statusHistory) = Len(jobRequests[r].statusHistory) + 1
                 /\ OthersUnchanged(r)
                 /\ employments' = employments]_vars

\* C15 witness: a stored request that its company has withdrawn.
C15_Witness ==
    \E r \in RequestIds :
        /\ jobRequests[r].status = "WITHDRAWN"
        /\ \E k \in 1..Len(jobRequests[r].statusHistory) :
              /\ jobRequests[r].statusHistory[k].changedBy = jobRequests[r].companyId
              /\ jobRequests[r].statusHistory[k].reason = "Withdrawn by company"

\* The Employment stored as e, ended with the given status by the given party.
Ended(e, status, party) ==
    [employments[e] EXCEPT !.status = status, !.endDate = "date",
                           !.termination = [set |-> TRUE, initiatedBy |-> party]]

\* C16: terminateEmployment is taken up exactly when the caller is the
\* employment's company and its status is ACTIVE, resignFromEmployment exactly
\* when the caller is its driver and its status is ACTIVE; another caller gets
\* Forbidden, a non-ACTIVE employment Validation, and a refused call writes
\* nothing and sends no Identity-Store update.  The save of a terminate stores
\* TERMINATED, endDate and termination.initiatedBy = COMPANY; the save of a
\* resign stores RESIGNED, endDate and termination.initiatedBy = DRIVER.
C16_EndOfEmployment ==
    [][/\ \A e \in EmploymentIds, c \in Companies, d \in Drivers :
            /\ TerminateOutcome(c, e) =
                 IF employments[e].companyId # c THEN "Forbidden"
                 ELSE IF employments[e].status # "ACTIVE" THEN "Validation"
                 ELSE "terminate"
            /\ ResignOutcome(d, e) =
                 IF employments[e].driverId # d THEN "Forbidden"
                 ELSE IF employments[e].status # "ACTIVE" THEN "Validation"
                 ELSE "resign"
       /\ (Len(handlers') > Len(handlers)
             /\ handlers'[Len(handlers')].op \in {"terminateEmployment", "resignFromEmployment"})
            => LET h == handlers'[Len(handlers')] IN
               /\ employments[h.employmentId].status = "ACTIVE"
               /\ h.caller = IF h.op = "terminateEmployment"
                               THEN employments[h.employmentId].companyId
                               ELSE employments[h.employmentId].driverId
               /\ employments' = employments /\ users' = users
       /\ \A i \in 1..Len(handlers) :
            (/\ StepOf(i) /\ handlers[i].pc = "save"
             /\ handlers[i].op \in {"terminateEmployment", "resignFromEmployment"})
              => LET e == handlers[i].employmentId IN
                 /\ employments'[e] =
                      IF handlers[i].op = "terminateEmployment"
                      THEN Ended(e, "TERMINATED", "COMPANY")
                      ELSE Ended(e, "RESIGNED", "DRIVER")
                 /\ Len(employments') = Len(employments)
                 /\ \A f \in EmploymentIds \ {e} : employments'[f] = employments[f]
                 /\ users' = users
       /\ users' # users
            => \E i \in 1..Len(handlers) : StepOf(i) /\ handlers[i].pc = "putUser"]_vars

\* C16 witness: an Employment the company terminated and one the driver left.
C16_Witness ==
    /\ \E e \in EmploymentIds :
          /\ employments[e].status = "TERMINATED"
          /\ employments[e].termination.initiatedBy = "COMPANY"
    /\ \E e \in EmploymentIds :
          /\ employments[e].status = "RESIGNED"
          /\ employments[e].termination.initiatedBy = "DRIVER"

\* C17: once the stored status of an Employment is TERMINATED or RESIGNED, no
\* step changes its status, its endDate or its termination block, also when
\* terminateEmployment and resignFromEmployment handlers for it interleave.
C17_EndedEmploymentIsFinal ==
    [][\A e \in EmploymentIds :
          employments[e].status \in {"TERMINATED", "RESIGNED"}
            => /\ employments'[e].status = employments[e].status
               /\ employments'[e].endDate = employments[e].endDate
               /\ employments'[e].termination = employments[e].termination]_vars

\* The handler at place i is a terminateEmployment or a resignFromEmployment.
ReleaseHandler(i) == handlers[i].op \in {"terminateEmployment", "resignFromEmployment"}

\* C18: every terminateEmployment or resignFromEmployment that saved goes on
\* to the Identity-Store update of the employment's driver; that call either
\* fails and leaves the store as it is, or sets the driver's companyName to
\* "Unemployed" and nothing else, and then createJobRequest for the driver
\* passes the free-agent check.
C18_ReleaseMakesFreeAgent ==
    [][\A i \in 1..Len(handlers), d \in Drivers :
          (/\ StepOf(i) /\ ReleaseHandler(i)
           /\ d = employments[handlers[i].employmentId].driverId)
            => CASE handlers[i].pc = "save" ->
                      /\ ~Answers(i)
                      /\ handlers'[i].pc = "putUser"
                      /\ handlers'[i].emp.driverId = d
                 [] handlers[i].pc = "putUser" ->
                      /\ Answers(i)
                      /\ \/ users' = users
                         \/ /\ users' = [users EXCEPT ![d].companyName = "Unemployed"]
                            /\ ~CurrentlyEmployed(users'[d])
                            /\ CreateOutcome(d, TRUE)' = "findOne"
                 [] OTHER -> FALSE]_vars

\* C18 witness: a driver whose employment was ended and whose Identity-Store
\* record says "Unemployed", with no handler in flight.
C18_Witness ==
    \E e \in EmploymentIds :
        /\ employments[e].status \in {"TERMINATED", "RESIGNED"}
        /\ users[employments[e].driverId].companyName = "Unemployed"
        /\ handlers = <<>>

\* The handler at place i is a respondToJobRequest past the insert of its
\* Employment, on the way to the save of the request.
AcceptHandler(i) ==
    /\ handlers[i].op = "respondToJobRequest"
    /\ handlers[i].action = "accept"
    /\ handlers[i].pc \in {"getCompany", "putUser", "save"}

\* The handler at place i is a createTrip past the insert of its Trip.
TripHandler(i) ==
    /\ handlers[i].op = "createTrip"
    /\ handlers[i].pc \in {"patchVehicle", "patchEmployment", "putUser", "notify"}

\* C19: whatever the outcome of the Identity-Store calls and notification
\* calls, an accept that inserted its Employment goes on to save the request
\* HIRED with the Employment ACTIVE and answers 200; a terminateEmployment or
\* resignFromEmployment that saved answers 200 with the Employment TERMINATED
\* or RESIGNED; a createTrip that saved keeps the trip stored through every
\* later call and answers 201.
C19_CollaboratorFailuresNotFatal ==
    [][\A i \in 1..Len(handlers) :
          StepOf(i) =>
            /\ AcceptHandler(i) =>
                 CASE handlers[i].pc = "getCompany" ->
                        /\ ~Answers(i)
                        /\ handlers'[i].pc \in {"putUser", "save"}
                        /\ UNCHANGED <<users, jobRequests, employments>>
                   [] handlers[i].pc = "putUser" ->
                        /\ ~Answers(i)
                        /\ handlers'[i].pc = "save"
                        /\ UNCHANGED <<jobRequests, employments>>
                   [] handlers[i].pc = "save" ->
                        /\ Answers(i)
                        /\ RespondAnswer(handlers[i]) = "OK"
                        /\ HiredBy(handlers[i])
            /\ (ReleaseHandler(i) /\ handlers[i].pc = "putUser") =>
                 /\ Answers(i)
                 /\ employments' = employments
                 /\ employments[handlers[i].employmentId].status =
                      IF handlers[i].op = "terminateEmployment"
                        THEN "TERMINATED" ELSE "RESIGNED"
            /\ TripHandler(i) =>
                 /\ Answers(i) <=> handlers[i].pc = "notify"
                 /\ trips' = trips
                 /\ handlers[i].tripId \in TripIds
                 /\ trips[handlers[i].tripId] = NewTrip(handlers[i])]_vars

\* C19 witness: after an accept, a release whose Identity-Store update failed
\* (the employment is ended and the driver's record still names the company)
\* and a stored trip, with no handler in flight.
C19_Witness ==
    /\ handlers = <<>>
    /\ trips # <<>>
    /\ \E e \in EmploymentIds :
         /\ employments[e].status \in {"TERMINATED", "RESIGNED"}
         /\ jobRequests[employments[e].sourceJobRequest].status = "HIRED"
         /\ users[employments[e].driverId].companyName
              = users[employments[e].companyId].companyName

\* The Employment ledger has an ACTIVE employment of driver d while the
\* Identity Store shows d as a free agent.
Diverged(d) == ActiveEmploymentsOf(d) # {} /\ ~CurrentlyEmployed(users[d])

\* The handler at place i is an accept, a terminate or a resign for driver d.
ForDriver(i, d) ==
    \/ handlers[i].op = "respondToJobRequest" /\ handlers[i].caller = d
    \/ ReleaseHandler(i) /\ handlers[i].emp.driverId = d

\* C20: when the Identity-Store update of an accept by driver d fails, the
\* store is left as it was while the Employment of d is ACTIVE, so a driver who
\* was a free agent is one still; the state "ACTIVE employment of d, d a free
\* agent in the Identity Store" is kept by every step that is not a step of an
\* accept, terminate or resign for d; and in that state createJobRequest for
\* d passes the free-agent check.
C20_NoReconciliation ==
    [][\A d \in Drivers :
          /\ \A i \in 1..Len(handlers) :
               (/\ StepOf(i) /\ AcceptHandler(i) /\ handlers[i].pc = "putUser"
                /\ handlers[i].caller = d)
                 => /\ handlers[i].employmentId \in ActiveEmploymentsOf(d)
                    /\ \/ users' = [users EXCEPT ![d].companyName = handlers[i].companyName]
                       \/ users' = users /\ (~CurrentlyEmployed(users[d]) => Diverged(d)')
          /\ (Diverged(d) /\ ~\E i \in 1..Len(handlers) : StepOf(i) /\ ForDriver(i, d))
               => Diverged(d)'
          /\ Diverged(d) => CreateOutcome(d, TRUE) = "findOne"]_vars

\* C20 witness: d1 has an ACTIVE employment, its request is HIRED, the
\* Identity Store has no companyName for d1, and no handler is in flight.
C20_Witness ==
    /\ handlers = <<>>
    /\ users["d1"].companyName = Absent
    /\ \E e \in ActiveEmploymentsOf("d1") :
         jobRequests[employments[e].sourceJobRequest].status = "HIRED"

\* The handler at place i is an updateDriverAssignmentStatus about to save.
AssignHandler(i) ==
    handlers[i].op = "updateDriverAssignmentStatus" /\ handlers[i].pc = "save"

\* C21: updateDriverAssignmentStatus(driverId, v) for a driver with an ACTIVE
\* employment answers 200 and leaves that Employment ACTIVE with stored
\* assignmentStatus = v and every other field as it was, so that a second
\* call with the same v leaves what the first one left.
C21_AssignmentToggle ==
    [][\A i \in 1..Len(handlers) :
          (StepOf(i) /\ AssignHandler(i)) =>
            /\ Answers(i)
            /\ employments' =
                 [employments EXCEPT ![handlers[i].employmentId].assignmentStatus =
                                        handlers[i].assignmentStatus]
            /\ employments'[handlers[i].employmentId].status = "ACTIVE"]_vars

\* C22: updateDriverAssignmentStatus throws Validation for a value outside
\* {UNASSIGNED, ASSIGNED} and NotFound for a driver without an ACTIVE
\* Employment, also when the driver has ended employments; a refused call
\* leaves the employments as they are, and a handler goes on to its save only
\* with a valid value and the ACTIVE employment of the driver it found.
C22_AssignmentErrors ==
    [][/\ \A d \in Drivers, v \in AssignmentValues :
            /\ v \notin {"UNASSIGNED", "ASSIGNED"} => AssignmentOutcome(d, v) = "Validation"
            /\ (v \in {"UNASSIGNED", "ASSIGNED"} /\ ActiveEmploymentsOf(d) = {})
                 => AssignmentOutcome(d, v) = "NotFound"
            /\ AssignmentOutcome(d, v) # "OK"
                 => updateDriverAssignmentStatus(d, v) = employments
       /\ (/\ Len(handlers') > Len(handlers)
           /\ handlers'[Len(handlers')].op = "updateDriverAssignmentStatus")
            => /\ employments' = employments
               /\ handlers'[Len(handlers')].assignmentStatus \in {"UNASSIGNED", "ASSIGNED"}
               /\ handlers'[Len(handlers')].employmentId
                    \in ActiveEmploymentsOf(handlers'[Len(handlers')].driverId)]_vars

\* C22 witness: a driver whose only employments are ended, for whom the toggle
\* is refused with NotFound and a bad value with Validation.
C22_Witness ==
    \E d \in Drivers :
        /\ \E e \in EmploymentIds : /\ employments[e].driverId = d
                                    /\ employments[e].status \in {"TERMINATED", "RESIGNED"}
        /\ ActiveEmploymentsOf(d) = {}
        /\ AssignmentOutcome(d, "ASSIGNED") = "NotFound"
        /\ AssignmentOutcome(d, "BUSY") = "Validation"
        /\ handlers = <<>>

\* C28: a step of updateDriverAssignmentStatus leaves every field of every
\* Employment other than assignmentStatus as it was, and a step of
\* respondToJobRequest, terminateEmployment or resignFromEmployment leaves
\* the assignmentStatus of every stored Employment as it was.
C28_AssignmentIndependentOfStatus ==
    [][\A i \in 1..Len(handlers) :
          StepOf(i) =>
            /\ AssignHandler(i) =>
                 /\ Len(employments') = Len(employments)
                 /\ \A e \in EmploymentIds :
                      [employments'[e] EXCEPT
                         !.assignmentStatus = employments[e].assignmentStatus]
                        = employments[e]
            /\ handlers[i].op \in {"respondToJobRequest", "terminateEmployment",
                                   "resignFromEmployment"} =>
                 \A e \in EmploymentIds :
                     employments'[e].assignmentStatus = employments[e].assignmentStatus]_vars

\* C28 witness: an employment has been ended by a release, and the toggle is
\* at its save for the ACTIVE employment of a driver.
C28_Witness ==
    /\ \E e \in EmploymentIds : employments[e].status \in {"TERMINATED", "RESIGNED"}
    /\ \E i \in 1..Len(handlers) :
         /\ AssignHandler(i)
         /\ employments[handlers[i].employmentId].status = "ACTIVE"

\* C23: when a createTrip with a driver has had both of its propagation
\* calls answered, the Identity Store's assignmentStatus of the driver is the
\* value sent, ASSIGNED, and equals the assignmentStatus of the driver's ACTIVE
\* Employment.
C23_IdentityMirrorsAssignment ==
    \A i \in 1..Len(handlers) :
        (handlers[i].op = "createTrip" /\ handlers[i].propagated)
          => /\ users[handlers[i].driverId].assignmentStatus = "ASSIGNED"
             /\ \A e \in ActiveEmploymentsOf(handlers[i].driverId) :
                  employments[e].assignmentStatus
                    = users[handlers[i].driverId].assignmentStatus

\* C30: a createTrip with a driver that has issued the Employment
\* assignment-status PATCH goes on to issue the Identity-Store internal-update
\* PUT, whatever the outcome of the PATCH.
C30_BothPropagationCallsFire ==
    [][\A i \in 1..Len(handlers) :
          (/\ StepOf(i) /\ handlers[i].op = "createTrip"
           /\ handlers[i].pc = "patchEmployment")
            => /\ ~Answers(i)
               /\ handlers'[i].pc = "putUser"]_vars

\* The stored ratings of driver d by company c that name employment e.
RatingsOfTriple(d, c, e) ==
    {r \in RatingIds : /\ ratings[r].driverId = d
                       /\ ratings[r].ratedBy.companyId = c
                       /\ ratings[r].employmentId = e}

\* C24: in every reachable state, for every driver, company and employment
\* there is at most one DriverRating of the driver by the company that names
\* the employment, whatever the interleaving of createRating handlers.
C24_OneRatingPerEmployment ==
    \A d \in Drivers, c \in Companies, e \in EmploymentIds :
        Cardinality(RatingsOfTriple(d, c, e)) <= 1

\* C25: calculateAggregateRatings(driverId) gives totalRatings = the number
\* of the driver's approved ratings and averageRating = the tenth nearest to
\* the mean of their overallRating (halves up; 5, 4 and 3 give 4.0), and 0,
\* 0 and an all-zero breakdown when there is none; the aggregate that
\* createRating answers counts the rating the handler saved.
C25_AggregateRatings ==
    [][/\ \A d \in RatedDrivers :
            LET agg == calculateAggregateRatings(d)
                n == Cardinality(ApprovedRatingsOf(d))
                sum == SumOfRatings(ApprovedRatingsOf(d))
            IN /\ agg.totalRatings = n
               /\ n = 0 => /\ agg.averageRating = 0
                           /\ \A f \in DOMAIN agg.breakdown : agg.breakdown[f] = 0
               /\ n > 0 => /\ 2 * agg.averageRating * n - n <= 20 * sum
                           /\ 20 * sum < 2 * agg.averageRating * n + n
               /\ ({ratings[r].overallRating : r \in ApprovedRatingsOf(d)} = {3, 4, 5}
                   /\ n = 3) => agg.averageRating = 40
       /\ \A i \in 1..Len(handlers) :
            (/\ StepOf(i) /\ handlers[i].op = "createRating"
             /\ handlers[i].pc = "aggregate")
              => /\ Answers(i)
                 /\ handlers[i].ratingId \in ApprovedRatingsOf(handlers[i].driverId)
                 /\ ratings[handlers[i].ratingId] = NewRating(handlers[i])
                 /\ RatingAnswer(handlers[i]).totalRatings
                      = Cardinality(ApprovedRatingsOf(handlers[i].driverId))]_vars

\* C25 witness: driver d1 has the three ratings 5, 4 and 3, the aggregate is
\* 4.0 over 3 ratings, and no handler is in flight.
C25_Witness ==
    /\ handlers = <<>>
    /\ Len(ratings) = 3
    /\ {ratings[r].overallRating : r \in ApprovedRatingsOf("d1")} = {3, 4, 5}
    /\ calculateAggregateRatings("d1").averageRating = 40
    /\ calculateAggregateRatings("d1").totalRatings = 3

\* The handler at place i is a getAvailableDrivers about to answer.
AvailableHandler(i) ==
    handlers[i].op = "getAvailableDrivers" /\ handlers[i].pc = "getUsers"

\* The drivers with a scheduled or in-progress trip that meets the requested
\* interval; without an interval, those with any such trip.
DriversOnTrips(startDateTime, endDateTime) ==
    {trips[t].driverId :
       t \in {u \in TripIds :
                /\ trips[u].driverId # Absent
                /\ trips[u].status \in {"scheduled", "in-progress"}
                /\ (startDateTime # 0 /\ endDateTime # 0)
                     => /\ startDateTime <= trips[u].endDateTime
                        /\ endDateTime >= trips[u].startDateTime}}

\* C26: getAvailableDrivers answers exactly the ACTIVE employments of the
\* company whose driver has no scheduled or in-progress trip meeting the
\* requested interval (with no interval: no such trip at all), and the two
\* disjuncts of its overlap test are equivalent.
C26_AvailableDrivers ==
    [][/\ \A i \in 1..Len(handlers), failed \in SUBSET Drivers :
            (StepOf(i) /\ AvailableHandler(i)) =>
              {a.employmentId : a \in AvailableAnswer(handlers[i], failed)}
                = {e \in EmploymentIds :
                     /\ employments[e].companyId = handlers[i].caller
                     /\ employments[e].status = "ACTIVE"
                     /\ employments[e].driverId
                          \notin DriversOnTrips(handlers[i].startDateTime,
                                                handlers[i].endDateTime)}
       /\ \A rs \in TripTimes, re \in TripTimes, ts \in TripTimes, te \in TripTimes :
            (rs <= te /\ re >= ts) <=> (ts <= re /\ te >= rs)]_vars

\* C27: a getAvailableDrivers whose trip-service call was not answered goes
\* on with no busy driver and answers every ACTIVE employment it found for the
\* company; an employment whose driver could not be fetched is answered with
\* driverDetails null (NoUser), the others with the driver's record; no step
\* of the handler changes a store.
C27_AvailabilityDegrades ==
    [][\A i \in 1..Len(handlers) :
          (StepOf(i) /\ handlers[i].op = "getAvailableDrivers") =>
            /\ UNCHANGED <<users, jobRequests, employments, trips, ratings>>
            /\ handlers[i].pc = "getTrips" =>
                 /\ ~Answers(i)
                 /\ handlers'[i].pc = "getUsers"
                 /\ handlers'[i].found = handlers[i].found
                 /\ ~TripsAnswered(TRUE, AvailabilityToken) => handlers'[i].busy = {}
            /\ handlers[i].pc = "getUsers" =>
                 /\ Answers(i)
                 /\ \A failed \in SUBSET Drivers :
                      LET answer == AvailableAnswer(handlers[i], failed) IN
                      /\ handlers[i].busy = {}
                           => {a.employmentId : a \in answer} = handlers[i].found
                      /\ \A a \in answer :
                           a.driverDetails =
                             IF employments[a.employmentId].driverId \in failed
                               THEN NoUser
                               ELSE users[employments[a.employmentId].driverId]]_vars

\* C27 witness: a getAvailableDrivers that found an ACTIVE employment whose
\* driver has a scheduled trip is about to answer with no busy driver.
C27_Witness ==
    \E i \in 1..Len(handlers) :
        /\ AvailableHandler(i)
        /\ handlers[i].busy = {}
        /\ \E e \in handlers[i].found, t \in TripIds :
             /\ employments[e].status = "ACTIVE"
             /\ trips[t].driverId = employments[e].driverId
             /\ trips[t].status = "scheduled"

\* ------------------------------------------------------------------ C29
\* The fields of a JobRequest that no handler assigns after new JobRequest.
OfferFields(doc) ==
    <<doc.jobDetails, doc.offeredSalary, doc.companyId, doc.driverId>>

\* The snapshot fields of an Employment.
SnapshotFields(emp) ==
    <<emp.serviceType, emp.vehicleType, emp.contractDuration, emp.contractUnit,
      emp.salary>>

\* The snapshot an offer gives: the values new Employment copies.
SnapshotOfOffer(doc) ==
    <<doc.jobDetails.serviceType, doc.jobDetails.vehicleType,
      doc.jobDetails.contractDuration, doc.jobDetails.contractUnit,
      doc.offeredSalary>>

C32_NotFoundOnlyIfMissing ==
    \A driverId \in UserIds, ok \in BOOLEAN :
        CreateOutcome(driverId, ok) = "NotFound" => driverId \notin DOMAIN users

\* ------------------------------------------------------------------ C33
\* C33: a request whose expiresAt has passed can only move to EXPIRED.  No
\* step takes a stored PENDING or VIEWED request whose expiresAt lies in the
\* past to another status than EXPIRED.
C33_LapsedOnlyExpires ==
    [][ \A r \in RequestIds :
            (r \in lapsed /\ jobRequests[r].status \in ModifiableStatuses)
                => jobRequests'[r].status \in {jobRequests[r].status, "EXPIRED"} ]_vars

\* ------------------------------------------------------------------ C34
\* C34: in every stored state of a JobRequest the status of the last
\* statusHistory entry is the current status of the request.
C34_HistoryRecordsStatus ==
    \A r \in RequestIds :
        LET history == jobRequests[r].statusHistory
        IN /\ Len(history) > 0
           /\ history[Len(history)].status = jobRequests[r].status

\* ------------------------------------------------------------------ C35
\* C35: when an accept in which no collaborator call failed has answered and
\* left the driver with an ACTIVE Employment, every createJobRequest for that
\* driver is refused with Validation by the free-agent check, whatever the
\* companyName of the hiring company is.
C35_EmployedNotOffered ==
    [][ \A i \in 1..Len(handlers) :
          (/\ Answers(i)
           /\ AcceptHandler(i)
           /\ handlers[i].pc = "save"
           /\ ~handlers[i].failed
           /\ handlers[i].employmentId \in 1..Len(employments')
           /\ employments'[handlers[i].employmentId].status = "ACTIVE")
            => /\ users' = users
               /\ CreateOutcome(handlers[i].caller, TRUE) = "Validation" ]_vars

\* ------------------------------------------------------------------ C36
\* C36: whenever no handler for request R is in flight, every Employment E
\* with sourceJobRequest = R has R stored HIRED with resultingEmployment = E;
\* in particular no WITHDRAWN, REJECTED or EXPIRED request has an Employment.
C36_RequestAndEmploymentLinked ==
    \A e \in EmploymentIds :
        LET r == employments[e].sourceJobRequest IN
        (\A i \in 1..Len(handlers) : handlers[i].requestId # r)
            => /\ jobRequests[r].status = "HIRED"
               /\ jobRequests[r].resultingEmployment = e

\* ------------------------------------------------------------------ C37
\* The handler at place i is one of the fleet manager's trip handlers.
FleetHandler(i) == handlers[i].op \in {"createTrip", "updateTrip", "deleteTrip"}

\* Frame h made the two propagation calls for its driver, or is to make them.
CallsForDriver(h) ==
    /\ h.driverId # Absent
    /\ \/ h.op \in {"createTrip", "deleteTrip"}
       \/ h.op = "updateTrip" /\ ResetsStatuses(h)

\* C37: when a createTrip, updateTrip or deleteTrip in which no propagation
\* call failed has answered, every driver with an ACTIVE Employment and at
\* least one trip with status scheduled or in-progress has assignmentStatus
\* ASSIGNED on that Employment.
C37_BusyDriverIsAssigned ==
    [][ \A i \in 1..Len(handlers) :
          (/\ Answers(i)
           /\ FleetHandler(i)
           /\ CallsForDriver(handlers[i]) => handlers[i].propagated)
            => \A e \in 1..Len(employments') :
                 (/\ employments'[e].status = "ACTIVE"
                  /\ \E t \in 1..Len(trips') :
                        /\ trips'[t].driverId = employments'[e].driverId
                        /\ trips'[t].status \in {"scheduled", "in-progress"})
                   => employments'[e].assignmentStatus = "ASSIGNED" ]_vars

\* ------------------------------------------------------------------ C38
\* Driver d has a trip with status scheduled or in-progress.
OnTrip(d) ==
    \E t \in TripIds : trips[t].driverId = d /\ trips[t].status \in {"scheduled", "in-progress"}

\* Driver d, in ACTIVE employment, has trips that were completed or cancelled
\* and none that is scheduled or in progress.
Freed(d) ==
    /\ ActiveEmploymentsOf(d) # {}
    /\ ~OnTrip(d)
    /\ \E t \in TripIds : trips[t].driverId = d /\ trips[t].status \in {"completed", "cancelled"}

\* C38: once the last scheduled or in-progress trip of a driver has become
\* completed or cancelled, the driver's ACTIVE Employment eventually has
\* assignmentStatus UNASSIGNED (or the driver is on a trip again).
C38_FreedEventuallyUnassigned ==
    \A d \in TripCallers :
        Freed(d) ~> (\/ OnTrip(d)
                     \/ \A e \in ActiveEmploymentsOf(d) :
                           employments[e].assignmentStatus = "UNASSIGNED")

\* ------------------------------------------------------------------ C39
\* Two closed intervals have a point in common.
IntervalsMeet(s1, e1, s2, e2) == s1 <= e2 /\ s2 <= e1

\* Trips t and u are both scheduled or in progress and overlap in time.
BookedTogether(t, u) ==
    /\ trips[t].status \in {"scheduled", "in-progress"}
    /\ trips[u].status \in {"scheduled", "in-progress"}
    /\ IntervalsMeet(trips[t].startDateTime, trips[t].endDateTime,
                     trips[u].startDateTime, trips[u].endDateTime)

\* C39: no two distinct scheduled or in-progress trips that share a vehicle,
\* or share a driver, overlap in time; and the three clauses of createTrip's
\* overlap query hold of exactly the intervals that meet the stored trip's.
C39_NoDoubleBooking ==
    /\ \A t, u \in TripIds :
          (t # u /\ BookedTogether(t, u))
            => /\ trips[t].vehicleId # trips[u].vehicleId
               /\ trips[t].driverId = Absent \/ trips[t].driverId # trips[u].driverId
    /\ \A t \in TripIds, start \in TripTimes, end \in TripTimes :
          start < end
            => (DatesOverlap(trips[t], start, end)
                  <=> IntervalsMeet(trips[t].startDateTime, trips[t].endDateTime,
                                    start, end))
====
